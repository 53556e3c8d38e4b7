--------------------------- MODULE StorageUploads ---------------------------
(***************************************************************************)
(* Object uploads: the rows of object_storage_uploads, the usage counters  *)
(* of the tenant's quota, the bytes at the provider, and the actors that   *)
(* work on them - request handlers (presign, complete, direct upload,      *)
(* delete, bucket sync) and reconcilers.  Each database transaction and    *)
(* each provider call is a step of its own; a crash ends a handler between *)
(* any two of them.  Every object counts as one unit of the quota.         *)
(***************************************************************************)
EXTENDS Integers, FiniteSets

CONSTANTS
    Objects,     \* provider keys; a key has at most one live upload row
    Handlers,    \* concurrent requests
    Reconcilers, \* one per gateway process
    Quota,       \* what the tenant's plan lets it store
    Nobody       \* no actor, and no key

ASSUME UploadsAssumption ==
    /\ IsFiniteSet(Objects)
    /\ Quota \in Nat
    /\ Nobody \notin Handlers \cup Reconcilers \cup Objects

VARIABLES
    row,        \* upload row of each key
    usage,      \* object_storage_usage: reserved and committed units
    bytes,      \* what the provider holds at each key
    url,        \* keys a client holds a valid presigned PUT URL for
    task,       \* what each handler and reconciler is doing
    todo        \* the candidates a reconciler has listed and not yet handled

vars == <<row, usage, bytes, url, task, todo>>

Actors == Handlers \cup Reconcilers

UploadState == {"none", "pending", "verifying", "ready", "failed",
                "quarantined", "deleting", "deleted"}
ReservationState == {"none", "reserved", "committed", "released"}
Origin == {"upload", "import"}
Content == {"none", "good", "bad"}
Step == {"idle", "signing", "putting", "written", "cleaning", "reading",
         "judging", "deleting", "erased", "importing"}

Row == [state : UploadState, res : ReservationState,
        attempt : Actors \cup {Nobody},  \* whose attempt_count is current
        leased : BOOLEAN,                \* updated_at within the lease
        expired : BOOLEAN,               \* expires_at has passed
        waiting : BOOLEAN,               \* next_attempt_at lies ahead
        unsigned : BOOLEAN,              \* last_error_code is presign_failed
        direct : BOOLEAN,                \* request_fingerprint: DirectUploader's
        origin : Origin]                 \* who wrote it, ImportReady or not
Task == [pc : Step, obj : Objects \cup {Nobody},
         origin : Origin,                \* which row of the key it works on
         created : BOOLEAN,              \* what Initiate returned
         seen : Content]                 \* what the provider returned
Candidate == [verdict : {"skip", "verify", "delete"}, origin : Origin]

NoRow == [state |-> "none", res |-> "none", attempt |-> Nobody,
          leased |-> FALSE, expired |-> FALSE, waiting |-> FALSE,
          unsigned |-> FALSE, direct |-> FALSE, origin |-> "upload"]
NoTask == [pc |-> "idle", obj |-> Nobody, origin |-> "upload",
           created |-> FALSE, seen |-> "none"]
Skipped == [verdict |-> "skip", origin |-> "upload"]

Init ==
    /\ row = [o \in Objects |-> NoRow]
    /\ usage = [reserved |-> 0, committed |-> 0]
    /\ bytes = [o \in Objects |-> "none"]
    /\ url = {}
    /\ task = [a \in Actors |-> NoTask]
    /\ todo = [r \in Reconcilers |-> [o \in Objects |-> Skipped]]

(***************************************************************************)
(* Reading a row                                                           *)
(***************************************************************************)
Idle(a) == task[a].pc = "idle"
At(a, pc, o) == task[a].pc = pc /\ task[a].obj = o

\* An import gives the key a new row: who fetched the row before still finds
\* that one, deleted.
StateOf(o, origin) == IF origin = row[o].origin THEN row[o].state
                                                      ELSE "deleted"

(***************************************************************************)
(* What each transition makes of a row.  The lease and the attempt count   *)
(* are read only while a row is verifying.                                 *)
(***************************************************************************)
Leaving(r, state) == [r EXCEPT !.state = state, !.attempt = Nobody, !.leased = FALSE]

PendingRow(r, direct) ==
    [r EXCEPT !.state = "pending", !.res = "reserved", !.expired = FALSE,
              !.waiting = FALSE, !.unsigned = FALSE, !.direct = direct]
UnsignedRow(r) ==
    [r EXCEPT !.state = "failed", !.res = "released", !.waiting = FALSE,
              !.unsigned = TRUE]
VerifyingRow(r, a) ==
    [r EXCEPT !.state = "verifying", !.attempt = a, !.leased = TRUE,
              !.waiting = FALSE, !.unsigned = FALSE]
ReadyRow(r) ==
    [Leaving(r, "ready") EXCEPT !.res = "committed", !.waiting = FALSE]
RejectedRow(r, outcome) == [Leaving(r, outcome) EXCEPT !.waiting = TRUE]
DeletingRow(r) == [Leaving(r, "deleting") EXCEPT !.waiting = FALSE]
DeletedRow(r) ==
    [r EXCEPT !.state = "deleted", !.res = "released", !.waiting = FALSE]
ImportedRow ==
    [state |-> "ready", res |-> "committed", attempt |-> Nobody,
     leased |-> FALSE, expired |-> TRUE, waiting |-> FALSE,
     unsigned |-> FALSE, direct |-> FALSE, origin |-> "import"]

Becomes(o, r) == row' = [row EXCEPT ![o] = r]

\* Mutants: stored units alone count; the limit itself still passes.
QuotaByCommitted == usage.committed >= Quota
QuotaOffByOne == usage.committed + usage.reserved > Quota

QuotaExceeded == usage.committed + usage.reserved >= Quota

Reserved(o) == row[o].res = "reserved"

Begin(a, pc, o, origin) ==
    task' = [task EXCEPT ![a] = [pc |-> pc, obj |-> o, origin |-> origin,
                                 created |-> FALSE, seen |-> "none"]]
Finish(a) == task' = [task EXCEPT ![a] = NoTask]
Continue(a, pc) == task' = [task EXCEPT ![a].pc = pc]

(***************************************************************************)
(* Initiate                                                                *)
(***************************************************************************)
NewInitiation(o) == row[o].state = "none" /\ bytes[o] = "none"

RetriedInitiation(o) ==
    /\ row[o].state = "failed"
    /\ row[o].res = "released"
    /\ row[o].unsigned

SameRequest(o, direct) == row[o].direct = direct

\* A new key or a retried initiation reserves quota; the row and the counter
\* are written in one transaction, and a refusal writes neither.
Initiate(a, o, direct, pc) ==
    /\ NewInitiation(o) \/ (RetriedInitiation(o) /\ SameRequest(o, direct))
    /\ ~QuotaExceeded
    /\ Becomes(o, PendingRow(row[o], direct))
    /\ usage' = [usage EXCEPT !.reserved = @ + 1]
    /\ task' = [task EXCEPT ![a] = [pc |-> pc, obj |-> o, origin |-> "upload",
                                    created |-> TRUE, seen |-> "none"]]
    /\ UNCHANGED <<bytes, url, todo>>

\* The key was used already: the caller gets the row as it is.
ReplayInitiation(a, o, direct, pc) ==
    /\ SameRequest(o, direct)
    /\ ~NewInitiation(o)
    /\ ~RetriedInitiation(o)
    /\ Begin(a, pc, o, row[o].origin)
    /\ UNCHANGED <<row, usage, bytes, url, todo>>

(***************************************************************************)
(* GetPresignedUploadURL: only a pending row with time left gets a URL     *)
(***************************************************************************)
Presign(a, o) ==
    /\ a \in Handlers
    /\ Idle(a)
    /\ \/ Initiate(a, o, FALSE, "signing")
       \/ /\ row[o].state = "pending" /\ Reserved(o) /\ ~row[o].expired
          /\ ReplayInitiation(a, o, FALSE, "signing")

\* The URL ends with the initiation it was asked for.
PresignSucceeds(a, o) ==
    /\ At(a, "signing", o)
    /\ url' = IF row[o].expired THEN url ELSE url \cup {o}
    /\ Finish(a)
    /\ UNCHANGED <<row, usage, bytes, todo>>

\* Mutant: the row is failed, the counter kept.
FailInitiationUncounted(o) ==
    /\ Becomes(o, UnsignedRow(row[o]))
    /\ UNCHANGED usage

FailInitiation(o) ==
    /\ Becomes(o, UnsignedRow(row[o]))
    /\ usage' = [usage EXCEPT !.reserved = @ - 1]

\* Only the request that created the initiation takes it back.
PresignFails(a, o) ==
    /\ At(a, "signing", o)
    /\ IF task[a].created /\ row[o].state = "pending" /\ Reserved(o)
       THEN FailInitiation(o)
       ELSE UNCHANGED <<row, usage>>
    /\ Finish(a)
    /\ UNCHANGED <<bytes, url, todo>>

\* The client uses its URL as long as it is valid, whatever the row says.
ClientPut(o, content) ==
    /\ o \in url
    /\ bytes' = [bytes EXCEPT ![o] = content]
    /\ UNCHANGED <<row, usage, url, task, todo>>

(***************************************************************************)
(* Direct uploads                                                          *)
(***************************************************************************)
DirectUpload(a, o) ==
    /\ a \in Handlers
    /\ Idle(a)
    /\ \/ Initiate(a, o, TRUE, "putting")
       \/ row[o].state # "ready" /\ Reserved(o) /\ ReplayInitiation(a, o, TRUE, "putting")

ProviderPut(a, o, content) ==
    /\ At(a, "putting", o)
    /\ bytes' = [bytes EXCEPT ![o] = content]
    /\ Continue(a, "written")
    /\ UNCHANGED <<row, usage, url, todo>>

\* A write that failed may have left something behind.
ProviderPutFails(a, o) ==
    /\ At(a, "putting", o)
    /\ bytes' \in {bytes, [bytes EXCEPT ![o] = "bad"]}
    /\ Continue(a, "cleaning")
    /\ UNCHANGED <<row, usage, url, todo>>

(***************************************************************************)
(* Verification, by CompleteUpload, a direct upload or a reconciler        *)
(***************************************************************************)
\* Mutant: a deletion under way does not stop a verification.
VerifiableWhileDeleting(o, origin) ==
    \/ StateOf(o, origin) \in {"pending", "failed", "quarantined", "deleting"}
    \/ StateOf(o, origin) = "verifying" /\ ~row[o].leased

Verifiable(o, origin) ==
    \/ StateOf(o, origin) \in {"pending", "failed", "quarantined"}
    \/ StateOf(o, origin) = "verifying" /\ ~row[o].leased

\* The lease is taken; a ready, busy, deleting or deleted row ends the task.
BeginVerification(a, o, origin) ==
    /\ IF Verifiable(o, origin)
       THEN /\ Becomes(o, VerifyingRow(row[o], a))
            /\ Begin(a, "reading", o, origin)
       ELSE Finish(a) /\ UNCHANGED row
    /\ UNCHANGED <<usage, bytes, url>>

CompleteUpload(a, o) ==
    /\ a \in Handlers
    /\ Idle(a)
    /\ Verifiable(o, row[o].origin)
    /\ BeginVerification(a, o, row[o].origin)
    /\ UNCHANGED todo

VerifyDirect(a, o) ==
    /\ At(a, "written", o)
    /\ BeginVerification(a, o, task[a].origin)
    /\ UNCHANGED todo

\* The provider answers with what it holds, or not at all.
ProviderGet(a, o) ==
    /\ At(a, "reading", o)
    /\ \E content \in {bytes[o], "none"} :
         task' = [task EXCEPT ![a] = [pc |-> "judging", obj |-> o, seen |-> content,
                        origin |-> task[a].origin, created |-> FALSE]]
    /\ UNCHANGED <<row, usage, bytes, url, todo>>

CurrentAttempt(a, o) == /\ StateOf(o, task[a].origin) = "verifying"
                        /\ row[o].attempt = a

\* Published once: registry row, counters and state change together.
CommitVerifiedUpload(a, o) ==
    /\ At(a, "judging", o)
    /\ task[a].seen = "good"
    /\ IF CurrentAttempt(a, o) /\ Reserved(o)
       THEN /\ Becomes(o, ReadyRow(row[o]))
            /\ usage' = [reserved |-> usage.reserved - 1,
                         committed |-> usage.committed + 1]
       ELSE UNCHANGED <<row, usage>>
    /\ Finish(a)
    /\ UNCHANGED <<bytes, url, todo>>

\* The failure is recorded and the reservation kept.
FailVerification(a, o, outcome) ==
    /\ IF CurrentAttempt(a, o)
       THEN Becomes(o, RejectedRow(row[o], outcome))
       ELSE UNCHANGED row
    /\ Finish(a)
    /\ UNCHANGED <<usage, bytes, url, todo>>

\* Nothing could be read, or the content is not what was announced.
RejectContent(a, o) ==
    /\ At(a, "judging", o)
    /\ \/ task[a].seen = "none" /\ FailVerification(a, o, "failed")
       \/ task[a].seen = "bad" /\ FailVerification(a, o, "quarantined")

\* The client's own digest contradicts the one it announced.
RejectReport(a, o) ==
    /\ a \in Handlers
    /\ At(a, "reading", o)
    /\ FailVerification(a, o, "quarantined")

(***************************************************************************)
(* Deletion, by DeleteObject, a failed direct write or a reconciler        *)
(***************************************************************************)
Deletable(o, origin) ==
    /\ StateOf(o, origin) \notin {"none", "deleted"}
    /\ ~(row[o].state = "deleting" /\ row[o].waiting)

\* Recorded before the provider call; deleting again resumes the deletion.
BeginDeletion(a, o, origin) ==
    /\ IF Deletable(o, origin)
       THEN /\ Becomes(o, DeletingRow(row[o]))
            /\ Begin(a, "deleting", o, origin)
       ELSE Finish(a) /\ UNCHANGED row
    /\ UNCHANGED <<usage, bytes, url>>

DeleteObject(a, o) ==
    /\ a \in Handlers
    /\ Idle(a)
    /\ Deletable(o, row[o].origin)
    /\ BeginDeletion(a, o, row[o].origin)
    /\ UNCHANGED todo

CleanupFailedWrite(a, o) ==
    /\ At(a, "cleaning", o)
    /\ BeginDeletion(a, o, task[a].origin)
    /\ UNCHANGED todo

ProviderDelete(a, o) ==
    /\ At(a, "deleting", o)
    /\ bytes' = [bytes EXCEPT ![o] = "none"]
    /\ Continue(a, "erased")
    /\ UNCHANGED <<row, usage, url, todo>>

\* The provider refused: FailDeletion schedules the retry.
ProviderDeleteFails(a, o) ==
    /\ At(a, "deleting", o)
    /\ IF StateOf(o, task[a].origin) = "deleting"
       THEN Becomes(o, [row[o] EXCEPT !.waiting = TRUE])
       ELSE UNCHANGED row
    /\ Finish(a)
    /\ UNCHANGED <<usage, bytes, url, todo>>

\* Mutant: what is given back is always taken from the reservations.
RefundReserved(o) == [usage EXCEPT !.reserved = @ - 1]

\* What the reservation still charges is given back with the last state.
Refund(o) ==
    [reserved |-> usage.reserved - IF row[o].res = "reserved" THEN 1 ELSE 0,
     committed |-> usage.committed - IF row[o].res = "committed" THEN 1 ELSE 0]

CompleteDeletion(a, o) ==
    /\ At(a, "erased", o)
    /\ IF StateOf(o, task[a].origin) = "deleting"
       THEN /\ Becomes(o, DeletedRow(row[o]))
            /\ usage' = Refund(o)
       ELSE UNCHANGED <<row, usage>>
    /\ Finish(a)
    /\ UNCHANGED <<bytes, url, todo>>

(***************************************************************************)
(* Bucket sync                                                             *)
(***************************************************************************)
\* The registry, object_storage_objects, lists what is committed.
Registered(o) == row[o].res = "committed"

\* The sync reads the bytes of a key the registry does not list.
SyncRead(a, o) ==
    /\ a \in Handlers
    /\ Idle(a)
    /\ bytes[o] # "none"
    /\ ~Registered(o)
    /\ row[o].origin = "upload"          \* bound: one import of each key
    /\ Begin(a, "importing", o, "upload")
    /\ UNCHANGED <<row, usage, bytes, url, todo>>

\* A key without a live row gets one that is ready and committed; a live row
\* or an import already recorded is returned as it is.
ImportReady(a, o) ==
    /\ At(a, "importing", o)
    /\ IF row[o].state \in {"none", "deleted"} /\ row[o].origin = "upload"
       THEN /\ Becomes(o, ImportedRow)
            /\ usage' = [usage EXCEPT !.committed = @ + 1]
       ELSE UNCHANGED <<row, usage>>
    /\ Finish(a)
    /\ UNCHANGED <<bytes, url, todo>>

\* Somebody else writes to the bucket, at a key no upload was given.
ExternalPut(o) ==
    /\ row[o].state = "none"
    /\ bytes[o] = "none"
    /\ bytes' = [bytes EXCEPT ![o] = "good"]
    /\ UNCHANGED <<row, usage, url, task, todo>>

(***************************************************************************)
(* The reconciler                                                          *)
(***************************************************************************)
\* Mutant: a verification cut off by a crash is not looked for.
ListedUnlessVerifying(o) ==
    \/ row[o].state = "deleting" /\ ~row[o].waiting
    \/ row[o].state = "failed" /\ Reserved(o) /\ (row[o].expired \/ ~row[o].waiting)
    \/ row[o].state \in {"pending", "quarantined"} /\ row[o].expired

Listed(o) ==
    \/ row[o].state = "deleting" /\ ~row[o].waiting
    \/ row[o].state = "failed" /\ Reserved(o) /\ (row[o].expired \/ ~row[o].waiting)
    \/ row[o].state = "verifying" /\ ~row[o].leased
    \/ row[o].state \in {"pending", "quarantined"} /\ row[o].expired

ShouldRetryVerification(o) ==
    /\ Reserved(o)
    /\ ~row[o].expired
    /\ row[o].state \in {"failed", "verifying"}

\* Mutant: a deletion that was begun is resumed only after the expiry of a
\* reservation.
ShouldDeleteExpired(o) ==
    /\ row[o].state \notin {"ready", "deleted"}
    /\ Reserved(o)
    /\ row[o].expired

ShouldDelete(o) ==
    /\ row[o].state \notin {"ready", "deleted"}
    /\ row[o].state = "deleting" \/ row[o].expired

\* Decided from the row as it was listed.
Verdict(o) ==
    CASE ~Listed(o)                 -> "skip"
      [] ShouldRetryVerification(o) -> "verify"
      [] ShouldDelete(o)            -> "delete"
      [] OTHER                      -> "skip"

ListReconcileCandidates(r) ==
    /\ Idle(r)
    /\ todo[r] = [o \in Objects |-> Skipped]
    /\ \E o \in Objects : Verdict(o) # "skip"
    /\ todo' = [todo EXCEPT ![r] = [o \in Objects |->
                  IF Verdict(o) = "skip" THEN Skipped
                  ELSE [verdict |-> Verdict(o), origin |-> row[o].origin]]]
    /\ UNCHANGED <<row, usage, bytes, url, task>>

Reconcile(r, o) ==
    /\ Idle(r)
    /\ \/ /\ todo[r][o].verdict = "verify"
          /\ BeginVerification(r, o, todo[r][o].origin)
       \/ /\ todo[r][o].verdict = "delete"
          /\ BeginDeletion(r, o, todo[r][o].origin)
    /\ todo' = [todo EXCEPT ![r][o] = Skipped]

(***************************************************************************)
(* Time and crashes                                                        *)
(***************************************************************************)
\* expires_at passes, for the row and for the URL that was signed for it.
Expire(o) ==
    /\ row[o].state # "none"
    /\ ~row[o].expired
    /\ Becomes(o, [row[o] EXCEPT !.expired = TRUE])
    /\ url' = url \ {o}
    /\ UNCHANGED <<usage, bytes, task, todo>>

LeaseEnds(o) ==
    /\ row[o].state = "verifying"
    /\ row[o].leased
    /\ Becomes(o, [row[o] EXCEPT !.leased = FALSE])
    /\ UNCHANGED <<usage, bytes, url, task, todo>>

RetryFallsDue(o) ==
    /\ row[o].waiting
    /\ Becomes(o, [row[o] EXCEPT !.waiting = FALSE])
    /\ UNCHANGED <<usage, bytes, url, task, todo>>

\* The process ends, or a write to the database fails.
Crash(a) ==
    /\ ~Idle(a)
    /\ Finish(a)
    /\ todo' = IF a \in Reconcilers
               THEN [todo EXCEPT ![a] = [o \in Objects |-> Skipped]] ELSE todo
    /\ UNCHANGED <<row, usage, bytes, url>>
-----------------------------------------------------------------------------
Next ==
    \/ \E a \in Actors, o \in Objects :
         \/ Presign(a, o) \/ PresignSucceeds(a, o) \/ PresignFails(a, o)
         \/ DirectUpload(a, o) \/ ProviderPutFails(a, o)
         \/ CompleteUpload(a, o) \/ VerifyDirect(a, o) \/ ProviderGet(a, o)
         \/ CommitVerifiedUpload(a, o) \/ RejectContent(a, o) \/ RejectReport(a, o)
         \/ DeleteObject(a, o) \/ CleanupFailedWrite(a, o) \/ ProviderDelete(a, o)
         \/ ProviderDeleteFails(a, o) \/ CompleteDeletion(a, o)
         \/ SyncRead(a, o) \/ ImportReady(a, o)
         \/ \E content \in {"good", "bad"} : ProviderPut(a, o, content)
    \/ \E o \in Objects, content \in {"good", "bad"} : ClientPut(o, content)
    \/ \E o \in Objects : ExternalPut(o) \/ Expire(o) \/ LeaseEnds(o) \/ RetryFallsDue(o)
    \/ \E r \in Reconcilers : ListReconcileCandidates(r)
    \/ \E r \in Reconcilers, o \in Objects : Reconcile(r, o)
    \/ \E a \in Actors : Crash(a)

Spec == Init /\ [][Next]_vars

\* Time passes, a reconciler's ticker finds every candidate sooner or later,
\* and of the deletions begun again and again neither the provider refuses
\* nor a crash cuts off every one.
Fairness ==
    /\ \A o \in Objects :
         /\ WF_vars(Expire(o)) /\ WF_vars(LeaseEnds(o)) /\ WF_vars(RetryFallsDue(o))
         /\ SF_vars(\E a \in Actors : ProviderDelete(a, o))
         /\ SF_vars(\E a \in Actors : CompleteDeletion(a, o))
    /\ \A r \in Reconcilers, o \in Objects :
         /\ SF_vars(ListReconcileCandidates(r) /\ Verdict(o) # "skip")
         /\ SF_vars(Reconcile(r, o))
         /\ WF_vars(ProviderGet(r, o))
         /\ WF_vars(CommitVerifiedUpload(r, o) \/ RejectContent(r, o))

FairSpec == Spec /\ Fairness
-----------------------------------------------------------------------------
TypeOK ==
    /\ row \in [Objects -> Row]
    /\ usage \in [reserved : Nat, committed : Nat]
    /\ bytes \in [Objects -> Content]
    /\ url \subseteq Objects
    /\ task \in [Actors -> Task]
    /\ todo \in [Reconcilers -> [Objects -> Candidate]]

Holding(res) == {o \in Objects : row[o].res = res}

\* The usage counters are the sums of what the rows hold, through replays,
\* races of verification with deletion, imports and crashes: nothing is
\* charged twice and nothing is given back twice (upload_lifecycle.go).
UsageMatches ==
    /\ usage.reserved = Cardinality(Holding("reserved"))
    /\ usage.committed = Cardinality(Holding("committed"))

\* Uploads never hold more than the quota: a reservation is refused when
\* stored and reserved units together have reached it, also when it is taken
\* again after a failed presign; only imports may go beyond (quotaExceeded).
QuotaKept ==
    Cardinality({o \in Objects : row[o].res \in {"reserved", "committed"}
                                 /\ row[o].origin = "upload"}) <= Quota

\* The bytes of an upload that is ready are at the provider: no deletion that
\* was begun, taken over or repeated by several actors reaches the provider
\* after a verification published the row (BeginDeletion, CommitVerifiedUpload).
ReadyHasBytes ==
    \A o \in Objects :
        row[o].state = "ready" /\ row[o].origin = "upload" => bytes[o] # "none"

\* No reservation is kept for ever: it becomes stored content or is given
\* back, whatever handlers crash and whoever abandons the upload (Reconciler).
ReservationsEnd ==
    \A o \in Objects : Reserved(o) ~> ~Reserved(o)

\* A deletion that was recorded is carried through, though every actor that
\* worked on it may crash or be refused by the provider.
DeletionsEnd ==
    \A o \in Objects : row[o].state = "deleting" ~> row[o].state # "deleting"

\* What the ledger charges each key.
Charges == [o \in Objects |-> row[o].res]

Ledger == INSTANCE UploadLedger WITH charge <- Charges, Size <- Cardinality

\* Every step is a step of the promised ledger, or changes no charge.
KeepsLedger == Ledger!Spec

\* "The provider operation remains guarded by the lifecycle transition
\* methods": a reconciler that decided from its list never starts to delete an
\* upload that has become ready in the meantime (ListReconcileCandidates).
ReconcilerSparesReady ==
    [][\A o \in Objects : row[o].state = "ready" /\ row'[o].state # "ready"
            => \E h \in Handlers : DeleteObject(h, o) \/ CleanupFailedWrite(h, o)]_vars
=============================================================================
