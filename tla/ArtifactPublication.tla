-------------------------- MODULE ArtifactPublication --------------------------
(***************************************************************************)
(* Publication of an Artifact's bytes by a Bridge (bridge/internal/artifact *)
(* /publisher.go) through the server's upload protocol (artifact/          *)
(* artifact-publication-service.ts, its repository, the blob store and     *)
(* task/artifact-content-binding-service.ts): prepare, chunks, seal, bind. *)
(*                                                                         *)
(* Answers get lost, a request the Bridge gave up on may arrive later, and  *)
(* the server dies between a change of the file system and the database.   *)
(* Under a capture lease a handler is one transaction, which a rejection   *)
(* rolls back; the files are not rolled back.  All publications declare    *)
(* the same content, which is one object of the content-addressed store.   *)
(***************************************************************************)
EXTENDS Naturals, Sequences, FiniteSets

CONSTANTS Publications,   \* publication requests, by idempotency key
          Capture,        \* those made under a read_capture lease
          Size,           \* declared_size, in chunks
          Bytes,          \* what a chunk may hold: "good" as declared, or "bad"
          MaximumUploads, \* maximumActiveUploads
          Losses,         \* bound on answers that do not arrive
          Crashes         \* bound on crashes of the server

PublicationAssumption ==
  /\ IsFiniteSet(Publications) /\ Capture \subseteq Publications
  /\ Size \in Nat \ {0} /\ Bytes \subseteq {"good", "bad"} /\ Bytes # {}
  /\ MaximumUploads \in Nat \ {0} /\ Losses \in Nat /\ Crashes \in Nat

VARIABLES row,        \* artifact_publications: state and received_size
          content,    \* has artifact_contents a row for the content?
          artifacts,  \* how many Artifacts were created from a publication
          tmp,        \* tmp/<publication>.upload, or NoFile
          blob,       \* sealed/<content>, or NoFile
          due,        \* publications whose expires_at has passed
          active,     \* publications whose lease still authorizes them
          source,     \* the bytes the Bridge captured
          client,     \* where publishSource is, and the view it last got
          net,        \* requests the server has not handled yet
          losses, crashes

server == <<row, content, artifacts, tmp, blob>>
vars == <<server, due, active, source, client, net, losses, crashes>>

NoFile == <<"none">>   \* no file of chunks holds this
Prefix(s, n) == SubSeq(s, 1, n)
Declared == [i \in 1..Size |-> "good"]
writable == {"prepared", "receiving"}

-----------------------------------------------------------------------------
(* The server.  A handler computes what it leaves in the database and in the
   file system and what it answers: a view of the publication, or an error. *)

db == [row |-> row, content |-> content, artifacts |-> artifacts]

Result(d, t, b, ok, view) == [db |-> d, tmp |-> t, blob |-> b, ok |-> ok, view |-> view]

\* withCaptureWrite: an exception rolls the database back under a capture lease.
Rejected(p, d, t) == Result(IF p \in Capture THEN db ELSE d, t, blob, FALSE, row[p])

Answered(p, d, t) == Result(d, t, blob, TRUE, d.row[p])

\* Mutant: the upload file is created anew.
EnsuredAnew(t, p) == [t EXCEPT ![p] = <<>>]

\* ensureUpload
Ensured(t, p) == IF t[p] = NoFile THEN [t EXCEPT ![p] = <<>>] ELSE t
Discarded(t, S) == [p \in Publications |-> IF p \in S THEN NoFile ELSE t[p]]
Marked(d, p, state) == [d EXCEPT !.row[p].state = state]

requireCurrentCapturePublication(p) == p \in Capture => p \in active

expireDueUploads ==
  LET E == {q \in due : row[q].state \in writable} IN
  [S |-> E, db |-> [db EXCEPT !.row = [q \in Publications |->
     IF q \in E THEN [row[q] EXCEPT !.state = "expired"] ELSE row[q]]]]

\* Mutant: an upload that was prepared and has no bytes yet is not counted.
activeUploadCountReceiving(d) ==
  Cardinality({q \in Publications : d.row[q].state = "receiving"})

activeUploadCount(d) == Cardinality({q \in Publications : d.row[q].state \in writable})

\* Mutant: a retry takes up an upload that has expired.
prepareRevived(p) ==
  LET d == expireDueUploads.db
      t == Discarded(tmp, expireDueUploads.S)
  IN IF d.row[p].state \in writable \cup {"expired"}
     THEN Answered(p, Marked(d, p, "receiving"), Ensured(t, p))
     ELSE IF d.row[p].state # "none" THEN Answered(p, d, t)
     ELSE IF p \notin active \/ activeUploadCount(d) >= MaximumUploads
     THEN Rejected(p, d, t)
     ELSE Answered(p, Marked(d, p, "prepared"), Ensured(t, p))

prepare(p) ==
  LET d == expireDueUploads.db
      t == Discarded(tmp, expireDueUploads.S)
  IN IF d.row[p].state \in writable
     THEN IF requireCurrentCapturePublication(p) THEN Answered(p, d, Ensured(t, p))
          ELSE Rejected(p, d, t)
     ELSE IF d.row[p].state # "none" THEN Answered(p, d, t)
     ELSE IF p \notin active \/ activeUploadCount(d) >= MaximumUploads
     THEN Rejected(p, d, t)
     ELSE Answered(p, Marked(d, p, "prepared"), Ensured(t, p))

\* requireWritable: an upload that is due is given up.
Writable(p) == p \notin due /\ row[p].state \in writable
NotWritable(p) ==
  IF p \in due /\ row[p].state \in writable
  THEN Rejected(p, Marked(db, p, "expired"), Discarded(tmp, {p}))
  ELSE Rejected(p, db, tmp)

\* reconcileTemporarySize: bytes that were never acknowledged are cut off.
truncate(file, size) == Prefix(file, size)
Missing(p) == Len(Ensured(tmp, p)[p]) < row[p].received
reconcileTemporarySize(p) ==
  IF Missing(p) THEN Ensured(tmp, p)
  ELSE [Ensured(tmp, p) EXCEPT ![p] = truncate(@, row[p].received)]
BytesMissing(p) == Rejected(p, Marked(db, p, "failed"), Ensured(tmp, p))

\* Mutant: the size is recorded, the state stays prepared.
advanceReceivedPrepared(p, n) == [db EXCEPT !.row[p].received = n]

\* Mutant: the size is not recorded.
advanceReceivedNothing(p, n) == Marked(db, p, "receiving")

advanceReceived(p, n) ==
  [db EXCEPT !.row[p] = [state |-> "receiving", received |-> n]]

\* The file operations of a chunk: it is there already, or it is written at its
\* offset, over what a request that was never acknowledged left there.
matches(file, offset, byte) == file[offset + 1] = byte
append(file, offset, byte) ==
  Append(Prefix(file, offset), byte) \o SubSeq(file, offset + 2, Len(file))

appendChunk(p, offset, byte) ==
  LET t == reconcileTemporarySize(p) IN
  IF row[p].state = "none" \/ ~requireCurrentCapturePublication(p) THEN Rejected(p, db, tmp)
  ELSE IF ~Writable(p) THEN NotWritable(p)
  ELSE IF Missing(p) THEN BytesMissing(p)
  ELSE IF offset < row[p].received
  THEN IF matches(t[p], offset, byte) THEN Answered(p, db, t) ELSE Rejected(p, db, t)
  ELSE IF offset # row[p].received \/ offset >= Size THEN Rejected(p, db, t)
  ELSE Answered(p, advanceReceived(p, offset + 1), [t EXCEPT ![p] = append(@, offset, byte)])

\* Mutant: the upload is taken for a duplicate although nothing was sealed.
SealedFilesDropped(t, p) == [tmp |-> Discarded(t, {p}), blob |-> blob]

\* The file system of a seal: the upload becomes the content, or is dropped if
\* the content is there already.
SealedFiles(t, p) ==
  [tmp |-> Discarded(t, {p}), blob |-> IF blob = NoFile THEN t[p] ELSE blob]

\* Mutant: the size was checked, the digest is not.
digestMatchesSize(bytes) == Len(bytes) = Size

digestMatches(bytes) == bytes = Declared

\* Whether a seal starts from the upload: after a crash it may be sealed already.
ReconcilesSeal(p) == tmp[p] # NoFile \/ blob = NoFile \/ row[p].received # Size

\* The row and the content row of a seal, in one transaction.
sealed(p) == [Marked(db, p, "sealed") EXCEPT !.content = TRUE]

seal(p) ==
  LET t == IF ReconcilesSeal(p) THEN reconcileTemporarySize(p) ELSE tmp
      f == SealedFiles(t, p)
  IN IF row[p].state \in {"sealed", "bound"} THEN Answered(p, db, tmp)
     ELSE IF row[p].state = "none" \/ ~requireCurrentCapturePublication(p)
     THEN Rejected(p, db, tmp)
     ELSE IF ~Writable(p) THEN NotWritable(p)
     ELSE IF ReconcilesSeal(p) /\ Missing(p) THEN BytesMissing(p)
     ELSE IF row[p].received # Size THEN Rejected(p, db, t)
     ELSE IF t[p] # NoFile /\ ~digestMatches(t[p])
     THEN Rejected(p, Marked(db, p, "failed"), Discarded(t, {p}))
     ELSE Result(sealed(p), f.tmp, f.blob, TRUE, sealed(p).row[p])

\* The row of a publication that is bound, and the Artifact created with it.
bound(p) == [Marked(db, p, "bound") EXCEPT !.artifacts[p] = @ + 1]

\* Mutant: a bound publication is bound once more.
bindAgain(p) ==
  IF row[p].state \notin {"sealed", "bound"} THEN Rejected(p, db, tmp)
  ELSE Answered(p, bound(p), tmp)

\* ArtifactContentBindingService.bind is one transaction.
bind(p) ==
  IF row[p].state = "bound" THEN Answered(p, db, tmp)
  ELSE IF row[p].state # "sealed" \/ ~requireCurrentCapturePublication(p)
  THEN Rejected(p, db, tmp)
  ELSE Answered(p, bound(p), tmp)

Handled(r) ==
  CASE r.op = "prepare" -> prepare(r.p)
    [] r.op = "chunk"   -> appendChunk(r.p, r.offset, source[r.p][r.offset + 1])
    [] r.op = "seal"    -> seal(r.p)
    [] r.op = "bind"    -> bind(r.p)
    [] r.op = "status"  -> Answered(r.p, db, tmp)

-----------------------------------------------------------------------------
(* The Bridge: publishSource. *)

\* The steps of publishSource with a request, and the one that follows when its
\* outcome is unknown.
Steps == {"prepare", "prepare2", "chunk", "chunkStatus", "chunk2", "seal", "sealStatus",
          "seal2", "bind", "bindStatus", "bind2"}

Operation(step) ==
  CASE step \in {"prepare", "prepare2"} -> "prepare"
    [] step \in {"chunk", "chunk2"} -> "chunk"
    [] step \in {"seal", "seal2"} -> "seal"
    [] step \in {"bind", "bind2"} -> "bind"
    [] OTHER -> "status"

Unknown(step) ==
  CASE step = "prepare" -> "prepare2" [] step = "chunk" -> "chunkStatus"
    [] step = "seal" -> "sealStatus"  [] step = "bind" -> "bindStatus"
    [] OTHER -> "failed"

\* The top of the upload loop, for the view of the publication it last got.
Onward(view) ==
  CASE view.state \in writable /\ view.received < Size -> "chunk"
    [] view.state \in writable /\ view.received = Size -> "seal"
    [] view.state \in {"sealed", "bound"} -> "bind"
    [] OTHER -> "failed"

\* What follows an answer.
After(step, old, view) ==
  CASE step = "chunkStatus" /\ view.received = old.received -> "chunk2"
    [] step = "sealStatus" /\ view.state \in writable -> "seal2"
    [] step = "bindStatus" -> IF view.state = "bound" THEN "bind2" ELSE "failed"
    [] step \in {"bind", "bind2"} -> "done"
    [] OTHER -> Onward(view)

Request(p) == [p |-> p, op |-> Operation(client[p].step), offset |-> client[p].view.received]

Send(p) ==
  /\ client[p].step \in Steps /\ ~client[p].waiting
  /\ net' = net \cup {Request(p)}
  /\ client' = [client EXCEPT ![p].waiting = TRUE]
  /\ UNCHANGED <<server, due, active, source, losses, crashes>>

\* The server handles a request; the Bridge gets the answer if it still waits
\* for this one.
Handle(r) ==
  LET h == Handled(r)
      c == client[r.p]
  IN /\ r \in net
     /\ net' = net \ {r}
     /\ row' = h.db.row /\ content' = h.db.content /\ artifacts' = h.db.artifacts
     /\ tmp' = h.tmp /\ blob' = h.blob
     /\ client' =
          IF c.waiting /\ r = Request(r.p)
          THEN [client EXCEPT ![r.p] =
                  IF ~h.ok THEN [c EXCEPT !.step = "failed", !.waiting = FALSE]
                  ELSE [step |-> After(c.step, c.view, h.view), waiting |-> FALSE,
                        view |-> h.view]]
          ELSE client
     /\ UNCHANGED <<due, active, source, losses, crashes>>

\* The connection breaks: the request is lost, or it arrives later.
Lose(p) ==
  /\ client[p].waiting /\ losses < Losses
  /\ losses' = losses + 1
  /\ client' = [client EXCEPT ![p].step = Unknown(@), ![p].waiting = FALSE]
  /\ net' \in {net, net \ {Request(p)}}
  /\ UNCHANGED <<server, due, active, source, crashes>>

\* The Run publishes the same source again.
PublishAgain(p) ==
  /\ client[p].step = "failed" /\ row[p].state \notin {"failed", "expired"}
  /\ client' = [client EXCEPT ![p] = [step |-> "prepare", waiting |-> FALSE,
                                      view |-> [state |-> "none", received |-> 0]]]
  /\ UNCHANGED <<server, due, active, source, net, losses, crashes>>

-----------------------------------------------------------------------------
(* Time, leases, crashes. *)

Init ==
  /\ row = [p \in Publications |-> [state |-> "none", received |-> 0]]
  /\ content = FALSE
  /\ artifacts = [p \in Publications |-> 0]
  /\ tmp = [p \in Publications |-> NoFile]
  /\ blob = NoFile
  /\ due = {}
  /\ active = Publications
  /\ source \in [Publications -> [1..Size -> Bytes]]
  /\ client = [p \in Publications |->
                 [step |-> "prepare", waiting |-> FALSE,
                  view |-> [state |-> "none", received |-> 0]]]
  /\ net = {}
  /\ losses = 0
  /\ crashes = 0

\* expires_at passes.
Due(p) ==
  /\ row[p].state # "none" /\ p \notin due
  /\ due' = due \cup {p}
  /\ UNCHANGED <<server, active, source, client, net, losses, crashes>>

\* The lease expires or is closed, or its Run ends.
LeaseEnds(p) ==
  /\ p \in active
  /\ active' = active \ {p}
  /\ UNCHANGED <<server, due, source, client, net, losses, crashes>>

\* The server dies while it handles a request: the file system may be changed,
\* what the request gained in the database is not.  Without a capture lease each
\* write commits by itself, and an upload is given up before its file is discarded.
GivenUp(r) ==
  [q \in Publications |->
     IF r.p \notin Capture /\ Handled(r).db.row[q].state \in {"failed", "expired"}
     THEN Handled(r).db.row[q] ELSE row[q]]

Crash(r) ==
  /\ r \in net /\ crashes < Crashes
  /\ crashes' = crashes + 1
  /\ net' = net \ {r}
  /\ \/ row' = GivenUp(r) /\ tmp' = Handled(r).tmp /\ blob' = Handled(r).blob
     \/ row' = GivenUp(r) /\ UNCHANGED <<tmp, blob>>
     \/ /\ Writable(r.p) /\ requireCurrentCapturePublication(r.p)
        /\ r.op = "chunk" \/ (r.op = "seal" /\ ReconcilesSeal(r.p))
        /\ tmp' = reconcileTemporarySize(r.p) /\ UNCHANGED <<row, blob>>
  /\ client' = IF client[r.p].waiting /\ r = Request(r.p)
               THEN [client EXCEPT ![r.p].step = Unknown(@), ![r.p].waiting = FALSE]
               ELSE client
  /\ UNCHANGED <<content, artifacts, due, active, source, losses>>

Next ==
  \/ \E p \in Publications :
       Send(p) \/ Lose(p) \/ PublishAgain(p) \/ Due(p) \/ LeaseEnds(p)
  \/ \E r \in net : Handle(r) \/ Crash(r)

\* publishSource goes on while its context lives, and the server handles what
\* arrives.
Fairness ==
  \A p \in Publications :
    /\ WF_vars(Send(p))
    /\ WF_vars(\E r \in net : r.p = p /\ Handle(r))

Spec == Init /\ [][Next]_vars /\ Fairness

-----------------------------------------------------------------------------
(***************************************************************************)
(* Properties.                                                             *)
(***************************************************************************)
\* States and sizes of the rows, and what files can hold.
PublicationTypeOK ==
  /\ \A p \in Publications :
       /\ row[p].state \in {"none", "sealed", "bound", "failed", "expired"} \cup writable
       /\ row[p].received \in 0..Size
       /\ row[p].state \in {"none", "prepared"} => row[p].received = 0
       /\ tmp[p] = NoFile \/ tmp[p] \in Seq(Bytes)
  /\ content \in BOOLEAN /\ due \subseteq Publications /\ active \subseteq Publications

\* What was sealed can be read: a sealed or bound publication has a content row,
\* and the content row has its blob, exactly the declared bytes, whichever of
\* several uploads of the content won and wherever the server died.
SealedIsReadable ==
  /\ \A p \in Publications : row[p].state \in {"sealed", "bound"} => content
  /\ content => blob # NoFile
  /\ blob # NoFile => blob = Declared

\* However often a bind is repeated or delayed, there is one Artifact, and the
\* Bridge takes a publication for done only when it is bound.
OneArtifact ==
  \A p \in Publications :
    /\ artifacts[p] = IF row[p].state = "bound" THEN 1 ELSE 0
    /\ client[p].step = "done" => row[p].state = "bound"

\* An upload the server still accepts chunks for has every acknowledged byte: a
\* Bridge may go on where its view says.  One case is excepted: a complete upload
\* under a capture lease whose bytes are not the declared ones.  Its failed digest
\* check discards the file and the rejection rolls back the row, which stays writable
\* (artifact-publication-service.ts:329-331, what its comment at 339 avoids for commits).
FailsItsDigest(p) == p \in Capture /\ row[p].received = Size /\ ~digestMatches(source[p])
AcknowledgedIsStored ==
  \A p \in Publications :
    row[p].state \in writable /\ p \notin due /\ ~FailsItsDigest(p) =>
      \/ blob # NoFile /\ row[p].received = Size
      \/ tmp[p] # NoFile /\ Len(tmp[p]) >= row[p].received
           /\ Prefix(tmp[p], row[p].received) = Prefix(source[p], row[p].received)

\* Uploads of a Team are bounded, also when due ones are swept meanwhile.
UploadsBounded ==
  Cardinality({p \in Publications : row[p].state \in writable}) <= MaximumUploads

\* An upload never goes back: received_size does not shrink, and what has ended
\* does not become writable again.
UploadsAdvanceStep ==
  \A p \in Publications :
    /\ row'[p].received >= row[p].received
    /\ row[p].state \in {"failed", "expired", "bound"} => row'[p].state = row[p].state
    /\ row[p].state = "sealed" => row'[p].state \in {"sealed", "bound"}
UploadsAdvance == [][UploadsAdvanceStep]_vars

\* publishSource returns: its upload loop, which goes by what the server reports,
\* does not run forever.
PublishingEnds ==
  \A p \in Publications : client[p].step \in Steps ~> client[p].step \in {"done", "failed"}
=============================================================================
