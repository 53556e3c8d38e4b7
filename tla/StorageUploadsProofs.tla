------------------------ MODULE StorageUploadsProofs ------------------------
(* Proofs about StorageUploads.                                            *)
EXTENDS StorageUploads, FiniteSetTheorems, TLAPS

\* What a row is charged as fits the state it is in.
RowAgrees(o) ==
  /\ row[o].state = "none" => row[o].res = "none"
  /\ row[o].res = "none" => row[o].state = "none"
  /\ row[o].state = "pending" => row[o].res = "reserved"
  /\ row[o].state = "ready" => row[o].res = "committed"
  /\ row[o].state = "deleted" => row[o].res = "released"
  /\ row[o].res = "committed" => row[o].state \in {"ready", "deleting"}
  /\ row[o].origin = "import" => row[o].state \in {"ready", "deleting", "deleted"}

\* Who works on a key knows which of its rows; no row is older than what is
\* known of it.
TaskKnows(a) ==
  task[a].pc # "idle" =>
    /\ task[a].obj \in Objects
    /\ task[a].origin = "import" => row[task[a].obj].origin = "import"

\* A deletion under way finds its row deleting or already deleted.
Deletes(a) ==
  task[a].pc \in {"deleting", "erased"}
    => StateOf(task[a].obj, task[a].origin) \in {"deleting", "deleted"}

\* Bytes a current verification has seen are still there.
Judged(a) ==
  task[a].pc = "judging" /\ task[a].seen # "none" /\ CurrentAttempt(a, task[a].obj)
    => bytes[task[a].obj] # "none"

\* The bytes of an upload that is ready are there.
HasBytes(o) == row[o].state = "ready" /\ row[o].origin = "upload" => bytes[o] # "none"

RowsTyped == row \in [Objects -> Row]
RestTyped ==
  /\ bytes \in [Objects -> Content]
  /\ url \subseteq Objects
  /\ task \in [Actors -> Task]
  /\ todo \in [Reconcilers -> [Objects -> Candidate]]

\* What the actors know of rows and bytes.
ActorsAgree ==
  /\ RowsTyped
  /\ RestTyped
  /\ \A o \in Objects : RowAgrees(o) /\ HasBytes(o)
  /\ \A a \in Actors : TaskKnows(a) /\ Deletes(a) /\ Judged(a)

\* The inductive invariant.
UploadsInv ==
  /\ ActorsAgree
  /\ usage \in [reserved : Nat, committed : Nat]
  /\ UsageMatches
  /\ QuotaKept

-----------------------------------------------------------------------------
(* What a step does to the charge of a row.                                *)

SameCharge(o) ==
  /\ row'[o].res = row[o].res
  /\ row'[o].origin = row[o].origin
  /\ usage' = usage

Reserves(o) ==
  /\ row[o].res \in {"none", "released"}
  /\ row'[o].res = "reserved"
  /\ ~QuotaExceeded
  /\ usage' = [usage EXCEPT !.reserved = @ + 1]

Commits(o) ==
  /\ row[o].res = "reserved"
  /\ row'[o].res = "committed"
  /\ row'[o].origin = row[o].origin
  /\ usage' = [reserved |-> usage.reserved - 1, committed |-> usage.committed + 1]

Releases(o) ==
  /\ row[o].res # "none"
  /\ row'[o].res = "released"
  /\ \/ usage' = Refund(o)
     \/ row[o].res = "reserved" /\ usage' = [usage EXCEPT !.reserved = @ - 1]

Imports(o) ==
  /\ row[o].res \in {"none", "released"}
  /\ row'[o].res = "committed"
  /\ row'[o].origin = "import"
  /\ usage' = [usage EXCEPT !.committed = @ + 1]

Charging(o) == SameCharge(o) \/ Reserves(o) \/ Commits(o) \/ Releases(o) \/ Imports(o)

\* Only this row changes.
Touches(o) == RowsTyped' /\ \A p \in Objects \ {o} : row'[p] = row[p]

\* The counted sets follow the row.
LEMMA CountFollows ==
  ASSUME RowsTyped, NEW o \in Objects, Touches(o), NEW x
  PROVE  /\ IsFiniteSet(Holding(x)) /\ IsFiniteSet(Holding(x)')
         /\ Cardinality(Holding(x)) \in Nat /\ Cardinality(Holding(x)') \in Nat
         /\ (row[o].res = x /\ row'[o].res # x
               => Cardinality(Holding(x)') = Cardinality(Holding(x)) - 1)
         /\ (row[o].res # x /\ row'[o].res = x
               => Cardinality(Holding(x)') = Cardinality(Holding(x)) + 1)
         /\ ((row[o].res = x) = (row'[o].res = x)
               => Cardinality(Holding(x)') = Cardinality(Holding(x)))
<1>1. Holding(x) \in SUBSET Objects /\ Holding(x)' \in SUBSET Objects
  BY DEF Holding
<1>2. IsFiniteSet(Holding(x)) /\ IsFiniteSet(Holding(x)')
  BY <1>1, FS_Subset, UploadsAssumption
<1>3. Cardinality(Holding(x)) \in Nat /\ Cardinality(Holding(x)') \in Nat
  BY <1>2, FS_CardinalityType
<1>4. CASE row[o].res = x /\ row'[o].res # x
  <2>1. Holding(x)' = Holding(x) \ {o} /\ o \in Holding(x)
    BY <1>4 DEF Holding, Touches
  <2> QED
    BY <2>1, <1>2, <1>3, <1>4, FS_RemoveElement
<1>5. CASE row[o].res # x /\ row'[o].res = x
  <2>1. Holding(x)' = Holding(x) \cup {o} /\ o \notin Holding(x)
    BY <1>5 DEF Holding, Touches
  <2> QED
    BY <2>1, <1>2, <1>3, <1>5, FS_AddElement
<1>6. CASE (row[o].res = x) = (row'[o].res = x)
  <2>1. Holding(x)' = Holding(x)
    BY <1>6 DEF Holding, Touches
  <2> QED
    BY <2>1, <1>2, <1>3, <1>6
<1> QED
  BY <1>2, <1>3, <1>4, <1>5, <1>6

\* The counters follow the rows.
LEMMA UsageFollows ==
  ASSUME RowsTyped, UsageMatches, usage \in [reserved : Nat, committed : Nat],
         NEW o \in Objects, Touches(o), Charging(o)
  PROVE  UsageMatches' /\ usage' \in [reserved : Nat, committed : Nat]
<1> DEFINE R == Cardinality(Holding("reserved"))
           C == Cardinality(Holding("committed"))
<1>1. /\ R \in Nat /\ R' \in Nat
      /\ row[o].res = "reserved" /\ row'[o].res # "reserved" => R' = R - 1
      /\ row[o].res # "reserved" /\ row'[o].res = "reserved" => R' = R + 1
      /\ (row[o].res = "reserved") = (row'[o].res = "reserved") => R' = R
  BY CountFollows
<1>2. /\ C \in Nat /\ C' \in Nat
      /\ row[o].res = "committed" /\ row'[o].res # "committed" => C' = C - 1
      /\ row[o].res # "committed" /\ row'[o].res = "committed" => C' = C + 1
      /\ (row[o].res = "committed") = (row'[o].res = "committed") => C' = C
  BY CountFollows
<1>3. usage.reserved = R /\ usage.committed = C
  BY DEF UsageMatches
<1> HIDE DEF R, C
<1>4. /\ usage'.reserved = R' /\ usage'.committed = C'
      /\ usage' = [reserved |-> usage'.reserved, committed |-> usage'.committed]
  <2>1. CASE SameCharge(o)
    BY <2>1, <1>1, <1>2, <1>3 DEF SameCharge
  <2>2. CASE Reserves(o)
    BY <2>2, <1>1, <1>2, <1>3 DEF Reserves
  <2>3. CASE Commits(o)
    BY <2>3, <1>1, <1>2, <1>3 DEF Commits
  <2>4. CASE Releases(o)
    BY <2>4, <1>1, <1>2, <1>3 DEF Releases, Refund
  <2>5. CASE Imports(o)
    BY <2>5, <1>1, <1>2, <1>3 DEF Imports
  <2> QED
    BY <2>1, <2>2, <2>3, <2>4, <2>5 DEF Charging
<1>5. usage' \in [reserved : Nat, committed : Nat]
  BY <1>1, <1>2, <1>4
<1>6. UsageMatches'
  BY <1>4 DEF UsageMatches, R, C
<1> QED
  BY <1>5, <1>6

\* Stored and reserved together are what the counters say.
LEMMA ChargedTogether ==
  ASSUME RowsTyped, UsageMatches
  PROVE  LET A == Holding("reserved") \cup Holding("committed")
         IN  IsFiniteSet(A) /\ Cardinality(A) = usage.reserved + usage.committed
<1>1. Holding("reserved") \in SUBSET Objects /\ Holding("committed") \in SUBSET Objects
  BY DEF Holding
<1>2. IsFiniteSet(Holding("reserved")) /\ IsFiniteSet(Holding("committed"))
  BY <1>1, FS_Subset, UploadsAssumption
<1>3. Holding("reserved") \cap Holding("committed") = {}
  BY DEF Holding
<1>4. Cardinality(Holding("reserved")) \in Nat /\ Cardinality(Holding("committed")) \in Nat
  BY <1>2, FS_CardinalityType
<1> QED
  BY <1>2, <1>3, <1>4, FS_Union, FS_EmptySet DEF UsageMatches

Uploads == {o \in Objects : row[o].res \in {"reserved", "committed"} /\ row[o].origin = "upload"}

\* Uploads stay within the quota.
LEMMA QuotaFollows ==
  ASSUME RowsTyped, UsageMatches, QuotaKept, NEW o \in Objects, Touches(o), Charging(o)
  PROVE  QuotaKept'
<1>1. Uploads \in SUBSET Objects /\ Uploads' \in SUBSET Objects
  BY DEF Uploads
<1>2. IsFiniteSet(Uploads) /\ IsFiniteSet(Uploads')
  BY <1>1, FS_Subset, UploadsAssumption
<1>3. Cardinality(Uploads) \in Nat /\ Cardinality(Uploads') \in Nat
  BY <1>2, FS_CardinalityType
<1>4. CASE Reserves(o)
  <2> DEFINE A == Holding("reserved") \cup Holding("committed")
  <2>1. Uploads' \subseteq A \cup {o}
    BY DEF Uploads, Holding, Touches
  <2>2. IsFiniteSet(A) /\ Cardinality(A) < Quota
    <3>1. ~(usage.committed + usage.reserved >= Quota)
      BY <1>4 DEF Reserves, QuotaExceeded
    <3>2. IsFiniteSet(A) /\ Cardinality(A) = usage.reserved + usage.committed
      BY ChargedTogether
    <3>3. Cardinality(Holding("reserved")) \in Nat /\ Cardinality(Holding("committed")) \in Nat
      BY CountFollows
    <3> QED
      BY <3>1, <3>2, <3>3, UploadsAssumption DEF UsageMatches
  <2> HIDE DEF A
  <2>3. IsFiniteSet(A \cup {o}) /\ Cardinality(A \cup {o}) <= Cardinality(A) + 1
    BY <2>2, FS_AddElement, FS_CardinalityType
  <2>4. Cardinality(Uploads') <= Cardinality(A \cup {o})
    BY <2>1, <2>3, FS_Subset
  <2>5. Cardinality(A) \in Nat /\ Cardinality(A \cup {o}) \in Nat
    BY <2>2, <2>3, FS_CardinalityType
  <2> QED
    BY <2>2, <2>3, <2>4, <2>5, <1>3, UploadsAssumption DEF QuotaKept, Uploads
<1>5. CASE SameCharge(o) \/ Commits(o) \/ Releases(o) \/ Imports(o)
  <2>1. Uploads' \subseteq Uploads
    BY <1>5 DEF Uploads, Touches, SameCharge, Commits, Releases, Imports
  <2>2. Cardinality(Uploads') <= Cardinality(Uploads)
    BY <2>1, <1>2, FS_Subset
  <2> QED
    BY <2>2, <1>3, UploadsAssumption DEF QuotaKept, Uploads
<1> QED
  BY <1>4, <1>5 DEF Charging

-----------------------------------------------------------------------------
(* What each transition makes of a row.                                    *)

\* The row no key has yet.
LEMMA NoRowTyped ==
  NoRow \in Row /\ NoRow.state = "none" /\ NoRow.res = "none" /\ NoRow.origin = "upload"
BY DEF NoRow, Row, Origin, UploadState, ReservationState

\* A reservation.
LEMMA PendingRowIs ==
  ASSUME NEW r \in Row, NEW direct \in BOOLEAN
  PROVE  LET q == PendingRow(r, direct) IN q \in Row /\ q.state = "pending" /\ q.res = "reserved" /\ q.origin = r.origin
<1> DEFINE q1 == [r EXCEPT !.state = "pending"]
           q2 == [q1 EXCEPT !.res = "reserved"]
           q3 == [q2 EXCEPT !.expired = FALSE]
           q4 == [q3 EXCEPT !.waiting = FALSE]
           q5 == [q4 EXCEPT !.unsigned = FALSE]
           q6 == [q5 EXCEPT !.direct = direct]
<1>1. q1 \in Row /\ q1.state = "pending" /\ q1.res = r.res /\ q1.attempt = r.attempt /\ q1.origin = r.origin
  BY DEF Row, Origin, UploadState, ReservationState, Actors
<1> HIDE DEF q1
<1>2. q2 \in Row /\ q2.state = "pending" /\ q2.res = "reserved" /\ q2.attempt = r.attempt /\ q2.origin = r.origin
  BY <1>1 DEF Row, Origin, UploadState, ReservationState, Actors
<1> HIDE DEF q2
<1>3. q3 \in Row /\ q3.state = "pending" /\ q3.res = "reserved" /\ q3.attempt = r.attempt /\ q3.origin = r.origin
  BY <1>2 DEF Row, Origin, UploadState, ReservationState, Actors
<1> HIDE DEF q3
<1>4. q4 \in Row /\ q4.state = "pending" /\ q4.res = "reserved" /\ q4.attempt = r.attempt /\ q4.origin = r.origin
  BY <1>3 DEF Row, Origin, UploadState, ReservationState, Actors
<1> HIDE DEF q4
<1>5. q5 \in Row /\ q5.state = "pending" /\ q5.res = "reserved" /\ q5.attempt = r.attempt /\ q5.origin = r.origin
  BY <1>4 DEF Row, Origin, UploadState, ReservationState, Actors
<1> HIDE DEF q5
<1>6. q6 \in Row /\ q6.state = "pending" /\ q6.res = "reserved" /\ q6.attempt = r.attempt /\ q6.origin = r.origin
  BY <1>5 DEF Row, Origin, UploadState, ReservationState, Actors
<1> HIDE DEF q6
<1>7. PendingRow(r, direct) = q6
  BY DEF PendingRow, q1, q2, q3, q4, q5, q6
<1> QED
  BY <1>6, <1>7

\* A failed presign.
LEMMA UnsignedRowIs ==
  ASSUME NEW r \in Row
  PROVE  LET q == UnsignedRow(r) IN q \in Row /\ q.state = "failed" /\ q.res = "released" /\ q.origin = r.origin
<1> DEFINE q1 == [r EXCEPT !.state = "failed"]
           q2 == [q1 EXCEPT !.res = "released"]
           q3 == [q2 EXCEPT !.waiting = FALSE]
           q4 == [q3 EXCEPT !.unsigned = TRUE]
<1>1. q1 \in Row /\ q1.state = "failed" /\ q1.res = r.res /\ q1.attempt = r.attempt /\ q1.origin = r.origin
  BY DEF Row, Origin, UploadState, ReservationState, Actors
<1> HIDE DEF q1
<1>2. q2 \in Row /\ q2.state = "failed" /\ q2.res = "released" /\ q2.attempt = r.attempt /\ q2.origin = r.origin
  BY <1>1 DEF Row, Origin, UploadState, ReservationState, Actors
<1> HIDE DEF q2
<1>3. q3 \in Row /\ q3.state = "failed" /\ q3.res = "released" /\ q3.attempt = r.attempt /\ q3.origin = r.origin
  BY <1>2 DEF Row, Origin, UploadState, ReservationState, Actors
<1> HIDE DEF q3
<1>4. q4 \in Row /\ q4.state = "failed" /\ q4.res = "released" /\ q4.attempt = r.attempt /\ q4.origin = r.origin
  BY <1>3 DEF Row, Origin, UploadState, ReservationState, Actors
<1> HIDE DEF q4
<1>5. UnsignedRow(r) = q4
  BY DEF UnsignedRow, q1, q2, q3, q4
<1> QED
  BY <1>4, <1>5

\* A lease taken.
LEMMA VerifyingRowIs ==
  ASSUME NEW r \in Row, NEW a \in Actors
  PROVE  LET q == VerifyingRow(r, a) IN q \in Row /\ q.state = "verifying" /\ q.res = r.res /\ q.origin = r.origin /\ q.attempt = a
<1> DEFINE q1 == [r EXCEPT !.state = "verifying"]
           q2 == [q1 EXCEPT !.attempt = a]
           q3 == [q2 EXCEPT !.leased = TRUE]
           q4 == [q3 EXCEPT !.waiting = FALSE]
           q5 == [q4 EXCEPT !.unsigned = FALSE]
<1>1. q1 \in Row /\ q1.state = "verifying" /\ q1.res = r.res /\ q1.attempt = r.attempt /\ q1.origin = r.origin
  BY DEF Row, Origin, UploadState, ReservationState, Actors
<1> HIDE DEF q1
<1>2. q2 \in Row /\ q2.state = "verifying" /\ q2.res = r.res /\ q2.attempt = a /\ q2.origin = r.origin
  BY <1>1 DEF Row, Origin, UploadState, ReservationState, Actors
<1> HIDE DEF q2
<1>3. q3 \in Row /\ q3.state = "verifying" /\ q3.res = r.res /\ q3.attempt = a /\ q3.origin = r.origin
  BY <1>2 DEF Row, Origin, UploadState, ReservationState, Actors
<1> HIDE DEF q3
<1>4. q4 \in Row /\ q4.state = "verifying" /\ q4.res = r.res /\ q4.attempt = a /\ q4.origin = r.origin
  BY <1>3 DEF Row, Origin, UploadState, ReservationState, Actors
<1> HIDE DEF q4
<1>5. q5 \in Row /\ q5.state = "verifying" /\ q5.res = r.res /\ q5.attempt = a /\ q5.origin = r.origin
  BY <1>4 DEF Row, Origin, UploadState, ReservationState, Actors
<1> HIDE DEF q5
<1>6. VerifyingRow(r, a) = q5
  BY DEF VerifyingRow, q1, q2, q3, q4, q5
<1> QED
  BY <1>5, <1>6

\* A publication.
LEMMA ReadyRowIs ==
  ASSUME NEW r \in Row
  PROVE  LET q == ReadyRow(r) IN q \in Row /\ q.state = "ready" /\ q.res = "committed" /\ q.origin = r.origin
<1> DEFINE q1 == [r EXCEPT !.state = "ready"]
           q2 == [q1 EXCEPT !.attempt = Nobody]
           q3 == [q2 EXCEPT !.leased = FALSE]
           q4 == [q3 EXCEPT !.res = "committed"]
           q5 == [q4 EXCEPT !.waiting = FALSE]
<1>1. q1 \in Row /\ q1.state = "ready" /\ q1.res = r.res /\ q1.attempt = r.attempt /\ q1.origin = r.origin
  BY DEF Row, Origin, UploadState, ReservationState, Actors
<1> HIDE DEF q1
<1>2. q2 \in Row /\ q2.state = "ready" /\ q2.res = r.res /\ q2.attempt = Nobody /\ q2.origin = r.origin
  BY <1>1 DEF Row, Origin, UploadState, ReservationState, Actors
<1> HIDE DEF q2
<1>3. q3 \in Row /\ q3.state = "ready" /\ q3.res = r.res /\ q3.attempt = Nobody /\ q3.origin = r.origin
  BY <1>2 DEF Row, Origin, UploadState, ReservationState, Actors
<1> HIDE DEF q3
<1>4. q4 \in Row /\ q4.state = "ready" /\ q4.res = "committed" /\ q4.attempt = Nobody /\ q4.origin = r.origin
  BY <1>3 DEF Row, Origin, UploadState, ReservationState, Actors
<1> HIDE DEF q4
<1>5. q5 \in Row /\ q5.state = "ready" /\ q5.res = "committed" /\ q5.attempt = Nobody /\ q5.origin = r.origin
  BY <1>4 DEF Row, Origin, UploadState, ReservationState, Actors
<1> HIDE DEF q5
<1>6. ReadyRow(r) = q5
  BY DEF ReadyRow, Leaving, q1, q2, q3, q4, q5
<1> QED
  BY <1>5, <1>6

\* A rejected upload.
LEMMA RejectedRowIs ==
  ASSUME NEW r \in Row, NEW outcome \in {"failed", "quarantined"}
  PROVE  LET q == RejectedRow(r, outcome) IN q \in Row /\ q.state = outcome /\ q.res = r.res /\ q.origin = r.origin
<1> DEFINE q1 == [r EXCEPT !.state = outcome]
           q2 == [q1 EXCEPT !.attempt = Nobody]
           q3 == [q2 EXCEPT !.leased = FALSE]
           q4 == [q3 EXCEPT !.waiting = TRUE]
<1>1. q1 \in Row /\ q1.state = outcome /\ q1.res = r.res /\ q1.attempt = r.attempt /\ q1.origin = r.origin
  BY DEF Row, Origin, UploadState, ReservationState, Actors
<1> HIDE DEF q1
<1>2. q2 \in Row /\ q2.state = outcome /\ q2.res = r.res /\ q2.attempt = Nobody /\ q2.origin = r.origin
  BY <1>1 DEF Row, Origin, UploadState, ReservationState, Actors
<1> HIDE DEF q2
<1>3. q3 \in Row /\ q3.state = outcome /\ q3.res = r.res /\ q3.attempt = Nobody /\ q3.origin = r.origin
  BY <1>2 DEF Row, Origin, UploadState, ReservationState, Actors
<1> HIDE DEF q3
<1>4. q4 \in Row /\ q4.state = outcome /\ q4.res = r.res /\ q4.attempt = Nobody /\ q4.origin = r.origin
  BY <1>3 DEF Row, Origin, UploadState, ReservationState, Actors
<1> HIDE DEF q4
<1>5. RejectedRow(r, outcome) = q4
  BY DEF RejectedRow, Leaving, q1, q2, q3, q4
<1> QED
  BY <1>4, <1>5

\* A deletion begun.
LEMMA DeletingRowIs ==
  ASSUME NEW r \in Row
  PROVE  LET q == DeletingRow(r) IN q \in Row /\ q.state = "deleting" /\ q.res = r.res /\ q.origin = r.origin
<1> DEFINE q1 == [r EXCEPT !.state = "deleting"]
           q2 == [q1 EXCEPT !.attempt = Nobody]
           q3 == [q2 EXCEPT !.leased = FALSE]
           q4 == [q3 EXCEPT !.waiting = FALSE]
<1>1. q1 \in Row /\ q1.state = "deleting" /\ q1.res = r.res /\ q1.attempt = r.attempt /\ q1.origin = r.origin
  BY DEF Row, Origin, UploadState, ReservationState, Actors
<1> HIDE DEF q1
<1>2. q2 \in Row /\ q2.state = "deleting" /\ q2.res = r.res /\ q2.attempt = Nobody /\ q2.origin = r.origin
  BY <1>1 DEF Row, Origin, UploadState, ReservationState, Actors
<1> HIDE DEF q2
<1>3. q3 \in Row /\ q3.state = "deleting" /\ q3.res = r.res /\ q3.attempt = Nobody /\ q3.origin = r.origin
  BY <1>2 DEF Row, Origin, UploadState, ReservationState, Actors
<1> HIDE DEF q3
<1>4. q4 \in Row /\ q4.state = "deleting" /\ q4.res = r.res /\ q4.attempt = Nobody /\ q4.origin = r.origin
  BY <1>3 DEF Row, Origin, UploadState, ReservationState, Actors
<1> HIDE DEF q4
<1>5. DeletingRow(r) = q4
  BY DEF DeletingRow, Leaving, q1, q2, q3, q4
<1> QED
  BY <1>4, <1>5

\* A deletion completed.
LEMMA DeletedRowIs ==
  ASSUME NEW r \in Row
  PROVE  LET q == DeletedRow(r) IN q \in Row /\ q.state = "deleted" /\ q.res = "released" /\ q.origin = r.origin
<1> DEFINE q1 == [r EXCEPT !.state = "deleted"]
           q2 == [q1 EXCEPT !.res = "released"]
           q3 == [q2 EXCEPT !.waiting = FALSE]
<1>1. q1 \in Row /\ q1.state = "deleted" /\ q1.res = r.res /\ q1.attempt = r.attempt /\ q1.origin = r.origin
  BY DEF Row, Origin, UploadState, ReservationState, Actors
<1> HIDE DEF q1
<1>2. q2 \in Row /\ q2.state = "deleted" /\ q2.res = "released" /\ q2.attempt = r.attempt /\ q2.origin = r.origin
  BY <1>1 DEF Row, Origin, UploadState, ReservationState, Actors
<1> HIDE DEF q2
<1>3. q3 \in Row /\ q3.state = "deleted" /\ q3.res = "released" /\ q3.attempt = r.attempt /\ q3.origin = r.origin
  BY <1>2 DEF Row, Origin, UploadState, ReservationState, Actors
<1> HIDE DEF q3
<1>4. DeletedRow(r) = q3
  BY DEF DeletedRow, q1, q2, q3
<1> QED
  BY <1>3, <1>4

\* An import.
LEMMA ImportedRowIs ==
  /\ ImportedRow \in Row /\ ImportedRow.state = "ready"
  /\ ImportedRow.res = "committed" /\ ImportedRow.origin = "import"
BY DEF ImportedRow, Row, Origin, UploadState, ReservationState

\* The row of a key is written as a whole.
LEMMA BecomesWrites ==
  ASSUME RowsTyped, NEW o \in Objects, NEW q \in Row, Becomes(o, q)
  PROVE  Touches(o) /\ row'[o] = q
BY DEF RowsTyped, Becomes, Touches

-----------------------------------------------------------------------------
(* What a step of one actor on one key may do to what the others know.     *)

\* The row of the key and its bytes move so that nobody else is wrong.
Moves(a, o) ==
  /\ Touches(o)
  /\ \/ row'[o].origin = row[o].origin
     \/ /\ row[o].origin = "upload" /\ row'[o].origin = "import"
        /\ row[o].state \in {"none", "deleted"}
        /\ row'[o].state = "ready"
  /\ row[o].origin = row'[o].origin => 
       /\ row[o].state = "deleting" => row'[o].state \in {"deleting", "deleted"}
       /\ row[o].state = "deleted" => row'[o].state = "deleted"
  /\ row'[o].state = "verifying" =>
       row'[o].attempt = a \/ (row[o].state = "verifying" /\ row'[o].attempt = row[o].attempt)
  /\ \A p \in Objects \ {o} : bytes'[p] = bytes[p]
  /\ bytes'[o] = "none" => bytes[o] = "none" \/ row'[o].state # "verifying"

\* What one actor knows stays true when another one moves a row.
LEMMA OthersKeep ==
  ASSUME ActorsAgree, NEW a \in Actors, NEW o \in Objects, Moves(a, o),
         NEW b \in Actors, b # a, task'[b] = task[b]
  PROVE  TaskKnows(b)' /\ Deletes(b)' /\ Judged(b)'
<1>1. task[b].origin \in Origin /\ \A p \in Objects : row[p].origin \in Origin
  BY DEF ActorsAgree, RowsTyped, RestTyped, Row, Task
<1>2. TaskKnows(b) /\ Deletes(b) /\ Judged(b) /\ RowAgrees(o)
  BY DEF ActorsAgree
<1>3. CASE task[b].pc = "idle"
  BY <1>3 DEF TaskKnows, Deletes, Judged
<1>4. CASE task[b].pc # "idle" /\ task[b].obj # o
  <2>1. task[b].obj \in Objects \ {o}
    BY <1>2, <1>4 DEF TaskKnows
  <2>2. row'[task[b].obj] = row[task[b].obj] /\ bytes'[task[b].obj] = bytes[task[b].obj]
    BY <2>1 DEF Moves, Touches
  <2> QED
    BY <1>2, <2>1, <2>2 DEF TaskKnows, Deletes, Judged, StateOf, CurrentAttempt
<1>5. CASE task[b].pc # "idle" /\ task[b].obj = o
  <2>1. TaskKnows(b)'
    BY <1>1, <1>2, <1>5 DEF TaskKnows, Moves
  <2>2. Deletes(b)'
    BY <1>1, <1>2, <1>5 DEF Deletes, Moves, StateOf, TaskKnows, RowAgrees, Origin
  <2>3. Judged(b)'
    BY <1>1, <1>2, <1>5 DEF Judged, Moves, StateOf, CurrentAttempt, TaskKnows, RowAgrees, Origin
  <2> QED
    BY <2>1, <2>2, <2>3
<1> QED
  BY <1>3, <1>4, <1>5

\* A step keeps the agreement if the row it writes and the actor that writes it do.
LEMMA StepKeeps ==
  ASSUME ActorsAgree, NEW a \in Actors, NEW o \in Objects, Moves(a, o), RestTyped',
         \A b \in Actors \ {a} : task'[b] = task[b],
         RowAgrees(o)', HasBytes(o)', TaskKnows(a)', Deletes(a)', Judged(a)'
  PROVE  ActorsAgree'
<1>1. \A b \in Actors : TaskKnows(b)' /\ Deletes(b)' /\ Judged(b)'
  BY OthersKeep
<1>2. \A p \in Objects : RowAgrees(p)' /\ HasBytes(p)'
  BY DEF ActorsAgree, Moves, Touches, RowAgrees, HasBytes
<1>3. RowsTyped'
  BY DEF Moves, Touches
<1> QED
  BY <1>1, <1>2, <1>3 DEF ActorsAgree

\* A step that leaves rows and bytes alone keeps it if the actor it moves does.
LEMMA QuietStepKeeps ==
  ASSUME ActorsAgree, NEW a \in Actors, UNCHANGED <<row, bytes>>, RestTyped',
         \A b \in Actors \ {a} : task'[b] = task[b],
         TaskKnows(a)', Deletes(a)', Judged(a)'
  PROVE  ActorsAgree'
<1>1. \A b \in Actors : TaskKnows(b)' /\ Deletes(b)' /\ Judged(b)'
  BY DEF ActorsAgree, TaskKnows, Deletes, Judged, StateOf, CurrentAttempt
<1>2. \A p \in Objects : RowAgrees(p)' /\ HasBytes(p)'
  BY DEF ActorsAgree, RowAgrees, HasBytes
<1> QED
  BY <1>1, <1>2 DEF ActorsAgree, RowsTyped

\* Nothing is known by an actor that is idle.
LEMMA IdleKnows ==
  ASSUME NEW a \in Actors, task'[a].pc = "idle"
  PROVE  TaskKnows(a)' /\ Deletes(a)' /\ Judged(a)'
BY DEF TaskKnows, Deletes, Judged

\* An actor that finishes.
LEMMA FinishTyped ==
  ASSUME ActorsAgree, NEW a \in Actors, Finish(a)
  PROVE  /\ task' \in [Actors -> Task] /\ task'[a].pc = "idle"
         /\ \A b \in Actors \ {a} : task'[b] = task[b]
BY DEF ActorsAgree, RestTyped, Finish, NoTask, Task, Step, Origin, Content

\* An actor that begins something.
LEMMA BeginTyped ==
  ASSUME ActorsAgree, NEW a \in Actors, NEW o \in Objects, NEW pc \in Step,
         NEW origin \in Origin, Begin(a, pc, o, origin)
  PROVE  /\ task' \in [Actors -> Task]
         /\ task'[a].pc = pc /\ task'[a].obj = o /\ task'[a].origin = origin
         /\ \A b \in Actors \ {a} : task'[b] = task[b]
BY DEF ActorsAgree, RestTyped, Begin, Task, Content

\* An actor that goes on with what it does.
LEMMA ContinueTyped ==
  ASSUME ActorsAgree, NEW a \in Actors, NEW pc \in Step, Continue(a, pc)
  PROVE  /\ task' \in [Actors -> Task]
         /\ task'[a].pc = pc /\ task'[a].obj = task[a].obj
         /\ task'[a].origin = task[a].origin
         /\ \A b \in Actors \ {a} : task'[b] = task[b]
BY DEF ActorsAgree, RestTyped, Continue, Task

-----------------------------------------------------------------------------
(* One action at a time: it keeps what the actors know of rows and bytes,  *)
(* and changes the charge of at most the row it writes.                    *)

OneCharge == UNCHANGED <<row, usage>> \/ \E o \in Objects : Touches(o) /\ Charging(o)

\* A new or retried reservation.
LEMMA InitiateKeeps ==
  ASSUME ActorsAgree, NEW a \in Actors, NEW o \in Objects, NEW direct \in BOOLEAN,
         NEW pc \in {"signing", "putting"}, Initiate(a, o, direct, pc)
  PROVE  ActorsAgree' /\ OneCharge
<1>1. Touches(o) /\ row'[o].state = "pending" /\ row'[o].res = "reserved"
     /\ row'[o].origin = row[o].origin
     /\ row[o].res \in {"none", "released"} /\ row[o].state \in {"none", "failed"}
  BY PendingRowIs, BecomesWrites DEF ActorsAgree, RowsTyped, RowAgrees, Initiate,
       NewInitiation, RetriedInitiation
<1>2. task' \in [Actors -> Task] /\ (\A b \in Actors \ {a} : task'[b] = task[b])
     /\ task'[a].pc = pc /\ task'[a].obj = o /\ task'[a].origin = "upload"
  BY DEF ActorsAgree, RestTyped, Initiate, Task, Step, Origin, Content
<1>3. RestTyped'
  BY <1>2 DEF ActorsAgree, RestTyped, Content, Initiate
<1>4. Moves(a, o)
  BY <1>1 DEF ActorsAgree, RowAgrees, TaskKnows, Deletes, StateOf, RestTyped, Moves, Content, Initiate
<1>5. RowAgrees(o)' /\ HasBytes(o)'
  BY <1>1 DEF ActorsAgree, RowAgrees, HasBytes, RestTyped, Content, Initiate
<1>6. TaskKnows(a)' /\ Deletes(a)' /\ Judged(a)'
  BY <1>2 DEF TaskKnows, Deletes, Judged
<1>7. OneCharge
  BY <1>1 DEF ActorsAgree, RowAgrees, RowsTyped, Row, ReservationState, OneCharge, Charging, Reserves, Initiate
<1> QED
  BY <1>2, <1>3, <1>4, <1>5, <1>6, <1>7, StepKeeps

\* A presign that fails.
LEMMA PresignFailsKeeps ==
  ASSUME ActorsAgree, NEW a \in Actors, NEW o \in Objects, PresignFails(a, o),
         task[a].created, row[o].state = "pending", Reserved(o)
  PROVE  ActorsAgree' /\ OneCharge
<1>1. Touches(o) /\ row'[o].state = "failed" /\ row'[o].res = "released"
     /\ row'[o].origin = row[o].origin
  BY UnsignedRowIs, BecomesWrites DEF ActorsAgree, RowsTyped, PresignFails, FailInitiation
<1>2. task' \in [Actors -> Task] /\ (\A b \in Actors \ {a} : task'[b] = task[b])
     /\ task'[a].pc = "idle"
  BY FinishTyped DEF PresignFails
<1>3. RestTyped'
  BY <1>2 DEF ActorsAgree, RestTyped, Content, PresignFails, FailInitiation, Reserved
<1>4. Moves(a, o)
  BY <1>1 DEF ActorsAgree, RowAgrees, TaskKnows, Deletes, StateOf, RestTyped, Moves, Content, PresignFails, FailInitiation, Reserved
<1>5. RowAgrees(o)' /\ HasBytes(o)'
  BY <1>1 DEF ActorsAgree, RowAgrees, HasBytes, RestTyped, Content, PresignFails, FailInitiation, Reserved
<1>6. TaskKnows(a)' /\ Deletes(a)' /\ Judged(a)'
  BY <1>2, IdleKnows
<1>7. OneCharge
  BY <1>1 DEF ActorsAgree, RowAgrees, RowsTyped, Row, ReservationState, OneCharge, Charging, Releases, Refund, PresignFails, FailInitiation, Reserved
<1> QED
  BY <1>2, <1>3, <1>4, <1>5, <1>6, <1>7, StepKeeps

\* A verification that takes the lease.
LEMMA LeaseKeeps ==
  ASSUME ActorsAgree, NEW a \in Actors, NEW o \in Objects, NEW origin \in Origin,
         BeginVerification(a, o, origin), Verifiable(o, origin),
         todo' \in [Reconcilers -> [Objects -> Candidate]]
  PROVE  ActorsAgree' /\ OneCharge
<1>1. Touches(o) /\ row'[o].state = "verifying" /\ row'[o].res = row[o].res
     /\ row'[o].origin = row[o].origin
     /\ row'[o].attempt = a /\ origin = row[o].origin
     /\ row[o].state \in {"pending", "failed", "quarantined", "verifying"}
  BY VerifyingRowIs, BecomesWrites DEF ActorsAgree, RowsTyped, BeginVerification,
       Verifiable, StateOf
<1>2. task' \in [Actors -> Task] /\ (\A b \in Actors \ {a} : task'[b] = task[b])
     /\ task'[a].pc = "reading" /\ task'[a].obj = o /\ task'[a].origin = origin
  BY BeginTyped DEF BeginVerification, Step
<1>3. RestTyped'
  BY <1>2 DEF ActorsAgree, RestTyped, Content, BeginVerification
<1>4. Moves(a, o)
  BY <1>1 DEF ActorsAgree, RowAgrees, TaskKnows, Deletes, StateOf, RestTyped, Moves, Content, BeginVerification
<1>5. RowAgrees(o)' /\ HasBytes(o)'
  BY <1>1 DEF ActorsAgree, RowAgrees, HasBytes, RestTyped, Content, BeginVerification
<1>6. TaskKnows(a)' /\ Deletes(a)' /\ Judged(a)'
  BY <1>1, <1>2 DEF TaskKnows, Deletes, Judged
<1>7. OneCharge
  BY <1>1 DEF ActorsAgree, RowAgrees, RowsTyped, Row, ReservationState, OneCharge, Charging, SameCharge, BeginVerification
<1> QED
  BY <1>2, <1>3, <1>4, <1>5, <1>6, <1>7, StepKeeps

\* A publication.
LEMMA CommitKeeps ==
  ASSUME ActorsAgree, NEW a \in Actors, NEW o \in Objects, CommitVerifiedUpload(a, o),
         CurrentAttempt(a, o), Reserved(o)
  PROVE  ActorsAgree' /\ OneCharge
<1>1. Touches(o) /\ row'[o].state = "ready" /\ row'[o].res = "committed"
     /\ row'[o].origin = row[o].origin
     /\ row[o].state = "verifying" /\ row[o].res = "reserved" /\ bytes[o] # "none"
  BY ReadyRowIs, BecomesWrites DEF ActorsAgree, RowsTyped, Judged, At,
       CommitVerifiedUpload, Reserved, CurrentAttempt, StateOf
<1>2. task' \in [Actors -> Task] /\ (\A b \in Actors \ {a} : task'[b] = task[b])
     /\ task'[a].pc = "idle"
  BY FinishTyped DEF CommitVerifiedUpload
<1>3. RestTyped'
  BY <1>2 DEF ActorsAgree, RestTyped, Content, CommitVerifiedUpload
<1>4. Moves(a, o)
  BY <1>1 DEF ActorsAgree, RowAgrees, TaskKnows, Deletes, StateOf, RestTyped, Moves, Content, CommitVerifiedUpload
<1>5. RowAgrees(o)' /\ HasBytes(o)'
  BY <1>1 DEF ActorsAgree, RowAgrees, HasBytes, RestTyped, Content, CommitVerifiedUpload
<1>6. TaskKnows(a)' /\ Deletes(a)' /\ Judged(a)'
  BY <1>2, IdleKnows
<1>7. OneCharge
  BY <1>1 DEF ActorsAgree, RowAgrees, RowsTyped, Row, ReservationState, OneCharge, Charging, Commits, CommitVerifiedUpload
<1> QED
  BY <1>2, <1>3, <1>4, <1>5, <1>6, <1>7, StepKeeps

\* A verification that fails.
LEMMA RejectKeeps ==
  ASSUME ActorsAgree, NEW a \in Actors, NEW o \in Objects, FailVerification(a, o, "failed")
           \/ FailVerification(a, o, "quarantined"),
         CurrentAttempt(a, o)
  PROVE  ActorsAgree' /\ OneCharge
<1>1. Touches(o) /\ row'[o].state \in {"failed", "quarantined"}
     /\ row'[o].res = row[o].res /\ row'[o].origin = row[o].origin
     /\ row[o].state = "verifying"
  BY RejectedRowIs, BecomesWrites DEF ActorsAgree, RowsTyped, FailVerification,
       CurrentAttempt, StateOf
<1>2. task' \in [Actors -> Task] /\ (\A b \in Actors \ {a} : task'[b] = task[b])
     /\ task'[a].pc = "idle"
  BY FinishTyped DEF FailVerification
<1>3. RestTyped'
  BY <1>2 DEF ActorsAgree, RestTyped, Content, FailVerification
<1>4. Moves(a, o)
  BY <1>1 DEF ActorsAgree, RowAgrees, TaskKnows, Deletes, StateOf, RestTyped, Moves, Content, FailVerification
<1>5. RowAgrees(o)' /\ HasBytes(o)'
  BY <1>1 DEF ActorsAgree, RowAgrees, HasBytes, RestTyped, Content, FailVerification
<1>6. TaskKnows(a)' /\ Deletes(a)' /\ Judged(a)'
  BY <1>2, IdleKnows
<1>7. OneCharge
  BY <1>1 DEF ActorsAgree, RowAgrees, RowsTyped, Row, ReservationState, OneCharge, Charging, SameCharge, FailVerification
<1> QED
  BY <1>2, <1>3, <1>4, <1>5, <1>6, <1>7, StepKeeps

\* A deletion begun or resumed.
LEMMA DeletionBegunKeeps ==
  ASSUME ActorsAgree, NEW a \in Actors, NEW o \in Objects, NEW origin \in Origin,
         BeginDeletion(a, o, origin), Deletable(o, origin),
         todo' \in [Reconcilers -> [Objects -> Candidate]]
  PROVE  ActorsAgree' /\ OneCharge
<1>1. Touches(o) /\ row'[o].state = "deleting" /\ row'[o].res = row[o].res
     /\ row'[o].origin = row[o].origin
     /\ row[o].state \notin {"none", "deleted"} /\ origin = row[o].origin
  BY DeletingRowIs, BecomesWrites DEF ActorsAgree, RowsTyped, BeginDeletion,
       Deletable, StateOf
<1>2. task' \in [Actors -> Task] /\ (\A b \in Actors \ {a} : task'[b] = task[b])
     /\ task'[a].pc = "deleting" /\ task'[a].obj = o /\ task'[a].origin = origin
  BY BeginTyped DEF BeginDeletion, Step
<1>3. RestTyped'
  BY <1>2 DEF ActorsAgree, RestTyped, Content, BeginDeletion
<1>4. Moves(a, o)
  BY <1>1 DEF ActorsAgree, RowAgrees, TaskKnows, Deletes, StateOf, RestTyped, Moves, Content, BeginDeletion
<1>5. RowAgrees(o)' /\ HasBytes(o)'
  BY <1>1 DEF ActorsAgree, RowAgrees, HasBytes, RestTyped, Content, BeginDeletion
<1>6. TaskKnows(a)' /\ Deletes(a)' /\ Judged(a)'
  BY <1>1, <1>2 DEF TaskKnows, Deletes, Judged, StateOf
<1>7. OneCharge
  BY <1>1 DEF ActorsAgree, RowAgrees, RowsTyped, Row, ReservationState, OneCharge, Charging, SameCharge, BeginDeletion
<1> QED
  BY <1>2, <1>3, <1>4, <1>5, <1>6, <1>7, StepKeeps

\* The provider deletes the bytes.
LEMMA EraseKeeps ==
  ASSUME ActorsAgree, NEW a \in Actors, NEW o \in Objects, ProviderDelete(a, o)
  PROVE  ActorsAgree' /\ OneCharge
<1>1. Touches(o) /\ row' = row /\ (row[o].origin = "upload" => row[o].state \in {"deleting", "deleted"})
     /\ row[o].state # "verifying"
  BY DEF ActorsAgree, RowsTyped, RowAgrees, Touches, ProviderDelete, Deletes, StateOf,
       TaskKnows, At, Row, Origin, RestTyped, Task
<1>2. task' \in [Actors -> Task] /\ (\A b \in Actors \ {a} : task'[b] = task[b])
     /\ task'[a].pc = "erased" /\ task'[a].obj = o /\ task'[a].origin = task[a].origin
  BY ContinueTyped DEF ProviderDelete, Step, At
<1>3. RestTyped'
  BY <1>2 DEF ActorsAgree, RestTyped, Content, ProviderDelete
<1>4. Moves(a, o)
  BY <1>1 DEF ActorsAgree, RowAgrees, TaskKnows, Deletes, StateOf, RestTyped, Moves, Content, ProviderDelete
<1>5. RowAgrees(o)' /\ HasBytes(o)'
  BY <1>1 DEF ActorsAgree, RowAgrees, HasBytes, RestTyped, Content, ProviderDelete
<1>6. TaskKnows(a)' /\ Deletes(a)' /\ Judged(a)'
  BY <1>1, <1>2 DEF ActorsAgree, TaskKnows, Deletes, Judged, StateOf, ProviderDelete, At
<1>7. OneCharge
  BY <1>1 DEF ActorsAgree, RowAgrees, RowsTyped, Row, ReservationState, OneCharge, Charging, SameCharge, ProviderDelete
<1> QED
  BY <1>2, <1>3, <1>4, <1>5, <1>6, <1>7, StepKeeps

\* A deletion completed.
LEMMA DeletionCompletedKeeps ==
  ASSUME ActorsAgree, NEW a \in Actors, NEW o \in Objects, CompleteDeletion(a, o),
         StateOf(o, task[a].origin) = "deleting"
  PROVE  ActorsAgree' /\ OneCharge
<1>1. Touches(o) /\ row'[o].state = "deleted" /\ row'[o].res = "released"
     /\ row'[o].origin = row[o].origin
     /\ row[o].state = "deleting"
  BY DeletedRowIs, BecomesWrites DEF ActorsAgree, RowsTyped, CompleteDeletion, StateOf
<1>2. task' \in [Actors -> Task] /\ (\A b \in Actors \ {a} : task'[b] = task[b])
     /\ task'[a].pc = "idle"
  BY FinishTyped DEF CompleteDeletion
<1>3. RestTyped'
  BY <1>2 DEF ActorsAgree, RestTyped, Content, CompleteDeletion
<1>4. Moves(a, o)
  BY <1>1 DEF ActorsAgree, RowAgrees, TaskKnows, Deletes, StateOf, RestTyped, Moves, Content, CompleteDeletion
<1>5. RowAgrees(o)' /\ HasBytes(o)'
  BY <1>1 DEF ActorsAgree, RowAgrees, HasBytes, RestTyped, Content, CompleteDeletion
<1>6. TaskKnows(a)' /\ Deletes(a)' /\ Judged(a)'
  BY <1>2, IdleKnows
<1>7. OneCharge
  BY <1>1 DEF ActorsAgree, RowAgrees, RowsTyped, Row, ReservationState, OneCharge, Charging, Releases, Refund, CompleteDeletion
<1> QED
  BY <1>2, <1>3, <1>4, <1>5, <1>6, <1>7, StepKeeps

\* An import.
LEMMA ImportKeeps ==
  ASSUME ActorsAgree, NEW a \in Actors, NEW o \in Objects, ImportReady(a, o),
         row[o].state \in {"none", "deleted"}, row[o].origin = "upload"
  PROVE  ActorsAgree' /\ OneCharge
<1>1. Touches(o) /\ row'[o].state = "ready" /\ row'[o].res = "committed"
     /\ row'[o].origin = "import"
  BY ImportedRowIs, BecomesWrites DEF ActorsAgree, ImportReady
<1>2. task' \in [Actors -> Task] /\ (\A b \in Actors \ {a} : task'[b] = task[b])
     /\ task'[a].pc = "idle"
  BY FinishTyped DEF ImportReady
<1>3. RestTyped'
  BY <1>2 DEF ActorsAgree, RestTyped, Content, ImportReady
<1>4. Moves(a, o)
  BY <1>1 DEF ActorsAgree, RowAgrees, TaskKnows, Deletes, StateOf, RestTyped, Moves, Content, ImportReady
<1>5. RowAgrees(o)' /\ HasBytes(o)'
  BY <1>1 DEF ActorsAgree, RowAgrees, HasBytes, RestTyped, Content, ImportReady
<1>6. TaskKnows(a)' /\ Deletes(a)' /\ Judged(a)'
  BY <1>2, IdleKnows
<1>7. OneCharge
  BY <1>1 DEF ActorsAgree, RowAgrees, RowsTyped, Row, ReservationState, OneCharge, Charging, Imports, ImportReady
<1> QED
  BY <1>2, <1>3, <1>4, <1>5, <1>6, <1>7, StepKeeps

\* Time passes, or bytes arrive: the row is written as it was but for a clock,
\* and no actor moves.
LEMMA WorldKeeps ==
  ASSUME ActorsAgree, NEW o \in Objects, Touches(o),
         row'[o].state = row[o].state, row'[o].res = row[o].res,
         row'[o].origin = row[o].origin, row'[o].attempt = row[o].attempt,
         \A p \in Objects : bytes'[p] = "none" => bytes[p] = "none",
         bytes' \in [Objects -> Content], url' \subseteq Objects,
         UNCHANGED <<usage, task, todo>>
  PROVE  ActorsAgree' /\ OneCharge
<1>1. \A p \in Objects : /\ row'[p].state = row[p].state /\ row'[p].res = row[p].res
                         /\ row'[p].origin = row[p].origin
                         /\ row'[p].attempt = row[p].attempt
  BY DEF Touches
<1>2. \A p \in Objects : RowAgrees(p)' /\ HasBytes(p)'
  BY <1>1 DEF ActorsAgree, RowAgrees, HasBytes
<1>3. ASSUME NEW a \in Actors PROVE TaskKnows(a)' /\ Deletes(a)' /\ Judged(a)'
  <2>1. TaskKnows(a) /\ Deletes(a) /\ Judged(a)
    BY DEF ActorsAgree
  <2> QED
    BY <1>1, <2>1 DEF TaskKnows, Deletes, Judged, StateOf, CurrentAttempt
<1>4. RowsTyped' /\ RestTyped'
  BY DEF ActorsAgree, Touches, RestTyped
<1> QED
  BY <1>2, <1>3, <1>4 DEF ActorsAgree, OneCharge, Charging, SameCharge

\* The three clocks of a row, and the retry of its deletion.
LEMMA ClockTyped ==
  ASSUME RowsTyped, NEW o \in Objects, NEW q,
         \/ q = [row[o] EXCEPT !.expired = TRUE]
         \/ q = [row[o] EXCEPT !.leased = FALSE]
         \/ q = [row[o] EXCEPT !.waiting = FALSE]
         \/ q = [row[o] EXCEPT !.waiting = TRUE]
  PROVE  /\ q \in Row /\ q.state = row[o].state /\ q.res = row[o].res
         /\ q.origin = row[o].origin /\ q.attempt = row[o].attempt
<1>1. row[o] \in Row
  BY DEF RowsTyped
<1> QED
  BY <1>1 DEF Row

\* The provider refuses a deletion, and its retry is scheduled.
LEMMA RefusalKeeps ==
  ASSUME ActorsAgree, NEW a \in Actors, NEW o \in Objects, ProviderDeleteFails(a, o),
         StateOf(o, task[a].origin) = "deleting"
  PROVE  ActorsAgree' /\ OneCharge
<1> DEFINE q == [row[o] EXCEPT !.waiting = TRUE]
<1>0. /\ q \in Row /\ q.state = row[o].state /\ q.res = row[o].res
      /\ q.origin = row[o].origin /\ q.attempt = row[o].attempt
      /\ Becomes(o, q)
  BY ClockTyped DEF ActorsAgree, ProviderDeleteFails
<1> HIDE DEF q
<1>1. Touches(o) /\ row'[o].state = row[o].state /\ row'[o].res = row[o].res
     /\ row'[o].origin = row[o].origin
     /\ row'[o].attempt = row[o].attempt
  BY <1>0, BecomesWrites DEF ActorsAgree
<1>2. task' \in [Actors -> Task] /\ (\A b \in Actors \ {a} : task'[b] = task[b])
     /\ task'[a].pc = "idle"
  BY FinishTyped DEF ProviderDeleteFails
<1>3. RestTyped'
  BY <1>2 DEF ActorsAgree, RestTyped, ProviderDeleteFails
<1>4. Moves(a, o)
  BY <1>1 DEF ActorsAgree, Moves, ProviderDeleteFails
<1>5. RowAgrees(o)' /\ HasBytes(o)'
  BY <1>1 DEF ActorsAgree, RowAgrees, HasBytes, ProviderDeleteFails
<1>6. TaskKnows(a)' /\ Deletes(a)' /\ Judged(a)'
  BY <1>2, IdleKnows
<1>7. OneCharge
  BY <1>1 DEF OneCharge, Charging, SameCharge, ProviderDeleteFails
<1> QED
  BY <1>2, <1>3, <1>4, <1>5, <1>6, <1>7, StepKeeps

\* A step that gives an actor its next task, or none, and leaves rows and bytes.
LEMMA QuietKeeps ==
  ASSUME ActorsAgree, NEW a \in Actors, NEW o \in Objects,
         NEW pc \in {"signing", "putting", "importing"},
         NEW origin \in {"upload", row[o].origin},
         Begin(a, pc, o, origin) \/ Finish(a),
         UNCHANGED <<row, usage, bytes>>, url' \subseteq Objects,
         todo' \in [Reconcilers -> [Objects -> Candidate]]
  PROVE  ActorsAgree' /\ OneCharge
<1>1. origin \in Origin /\ pc \in Step
  BY DEF ActorsAgree, RowsTyped, Row, Origin, Step
<1>2. /\ task' \in [Actors -> Task] /\ \A b \in Actors \ {a} : task'[b] = task[b]
      /\ TaskKnows(a)' /\ Deletes(a)' /\ Judged(a)'
  <2>1. CASE Finish(a)
    BY <2>1, FinishTyped, IdleKnows
  <2>2. CASE Begin(a, pc, o, origin)
    BY <1>1, <2>2, BeginTyped DEF TaskKnows, Deletes, Judged
  <2> QED
    BY <2>1, <2>2
<1>3. RestTyped'
  BY <1>2 DEF ActorsAgree, RestTyped
<1> QED
  BY <1>2, <1>3, QuietStepKeeps DEF OneCharge

\* Bytes of a direct upload arrive, or are left behind, and its handler goes on.
LEMMA PutKeeps ==
  ASSUME ActorsAgree, NEW a \in Actors, NEW o \in Objects,
         NEW content \in {bytes[o], "good", "bad"},
         bytes' = [bytes EXCEPT ![o] = content],
         NEW pc \in {"written", "cleaning"}, At(a, "putting", o), Continue(a, pc),
         UNCHANGED <<row, usage, url, todo>>
  PROVE  ActorsAgree' /\ OneCharge
<1>1. /\ bytes' \in [Objects -> Content]
      /\ \A p \in Objects : bytes'[p] = "none" => bytes[p] = "none"
      /\ \A p \in Objects \ {o} : bytes'[p] = bytes[p]
  BY DEF ActorsAgree, RestTyped, Content
<1>2. /\ task' \in [Actors -> Task] /\ \A b \in Actors \ {a} : task'[b] = task[b]
      /\ TaskKnows(a)' /\ Deletes(a)' /\ Judged(a)'
  <2>1. TaskKnows(a) /\ pc \in Step
    BY DEF ActorsAgree, Step
  <2> QED
    BY <2>1, ContinueTyped DEF TaskKnows, Deletes, Judged, At
<1>3. RestTyped'
  BY <1>1, <1>2 DEF ActorsAgree, RestTyped
<1>4. Moves(a, o)
  BY <1>1 DEF ActorsAgree, RowsTyped, Moves, Touches
<1>5. RowAgrees(o)' /\ HasBytes(o)'
  BY <1>1 DEF ActorsAgree, RowAgrees, HasBytes
<1> QED
  BY <1>2, <1>3, <1>4, <1>5, StepKeeps DEF OneCharge

\* The provider's answer.
LEMMA GetKeeps ==
  ASSUME ActorsAgree, NEW a \in Actors, NEW o \in Objects, ProviderGet(a, o)
  PROVE  ActorsAgree' /\ OneCharge
<1>1. PICK content \in {bytes[o], "none"} :
        task' = [task EXCEPT ![a] = [pc |-> "judging", obj |-> o, seen |-> content,
                   origin |-> task[a].origin, created |-> FALSE]]
  BY DEF ProviderGet
<1>2. task' \in [Actors -> Task] /\ \A b \in Actors \ {a} : task'[b] = task[b]
  BY <1>1 DEF ActorsAgree, RestTyped, Task, Step, Content
<1>3. TaskKnows(a)' /\ Deletes(a)' /\ Judged(a)'
  BY <1>1 DEF ActorsAgree, RestTyped, TaskKnows, Deletes, Judged, ProviderGet, At
<1>4. RestTyped'
  BY <1>2 DEF ActorsAgree, RestTyped, ProviderGet
<1> QED
  BY <1>2, <1>3, <1>4, QuietStepKeeps DEF ProviderGet, OneCharge

\* Verification as a whole: the lease, or nothing.
LEMMA VerificationKeeps ==
  ASSUME ActorsAgree, NEW a \in Actors, NEW o \in Objects, NEW origin \in Origin,
         BeginVerification(a, o, origin),
         todo' \in [Reconcilers -> [Objects -> Candidate]]
  PROVE  ActorsAgree' /\ OneCharge
<1>1. CASE Verifiable(o, origin)
  BY <1>1, LeaseKeeps
<1>2. CASE ~Verifiable(o, origin)
  BY <1>2, QuietKeeps DEF BeginVerification, ActorsAgree, RestTyped
<1> QED
  BY <1>1, <1>2

\* Deletion as a whole: the state, or nothing.
LEMMA DeletionKeeps ==
  ASSUME ActorsAgree, NEW a \in Actors, NEW o \in Objects, NEW origin \in Origin,
         BeginDeletion(a, o, origin),
         todo' \in [Reconcilers -> [Objects -> Candidate]]
  PROVE  ActorsAgree' /\ OneCharge
<1>1. CASE Deletable(o, origin)
  BY <1>1, DeletionBegunKeeps
<1>2. CASE ~Deletable(o, origin)
  BY <1>2, QuietKeeps DEF BeginDeletion, ActorsAgree, RestTyped
<1> QED
  BY <1>1, <1>2

-----------------------------------------------------------------------------
(* All actions together.                                                   *)

\* A handler of a signed, direct or completed upload takes its next step.
LEMMA UploadStepKeeps ==
  ASSUME ActorsAgree, NEW a \in Actors, NEW o \in Objects,
         \/ Presign(a, o) \/ PresignSucceeds(a, o) \/ PresignFails(a, o)
         \/ DirectUpload(a, o) \/ ProviderPutFails(a, o)
         \/ \E content \in {"good", "bad"} : ProviderPut(a, o, content)
  PROVE  ActorsAgree' /\ OneCharge
<1>0. UNCHANGED todo => todo' \in [Reconcilers -> [Objects -> Candidate]]
  BY DEF ActorsAgree, RestTyped
<1>1. CASE Presign(a, o)
  <2>1. CASE Initiate(a, o, FALSE, "signing")
    BY <2>1, InitiateKeeps
  <2>2. CASE ReplayInitiation(a, o, FALSE, "signing")
    BY <1>0, <2>2, QuietKeeps DEF ReplayInitiation, ActorsAgree, RestTyped
  <2> QED
    BY <1>1, <2>1, <2>2 DEF Presign
<1>2. CASE PresignSucceeds(a, o)
  BY <1>0, <1>2, QuietKeeps DEF PresignSucceeds, ActorsAgree, RestTyped
<1>3. CASE PresignFails(a, o)
  <2>1. CASE task[a].created /\ row[o].state = "pending" /\ Reserved(o)
    BY <1>3, <2>1, PresignFailsKeeps
  <2>2. CASE ~(task[a].created /\ row[o].state = "pending" /\ Reserved(o))
    BY <1>0, <1>3, <2>2, QuietKeeps DEF PresignFails, ActorsAgree, RestTyped
  <2> QED
    BY <2>1, <2>2
<1>4. CASE DirectUpload(a, o)
  <2>1. CASE Initiate(a, o, TRUE, "putting")
    BY <2>1, InitiateKeeps
  <2>2. CASE ReplayInitiation(a, o, TRUE, "putting")
    BY <1>0, <2>2, QuietKeeps DEF ReplayInitiation, ActorsAgree, RestTyped
  <2> QED
    BY <1>4, <2>1, <2>2 DEF DirectUpload
<1>5. CASE ProviderPutFails(a, o)
  <2>1. bytes = [bytes EXCEPT ![o] = bytes[o]]
    BY DEF ActorsAgree, RestTyped
  <2>2. PICK content \in {bytes[o], "bad"} : bytes' = [bytes EXCEPT ![o] = content]
    BY <1>5, <2>1 DEF ProviderPutFails
  <2> QED
    BY <1>5, <2>2, PutKeeps DEF ProviderPutFails
<1>6. CASE \E content \in {"good", "bad"} : ProviderPut(a, o, content)
  BY <1>6, PutKeeps DEF ProviderPut
<1> QED
  BY <1>1, <1>2, <1>3, <1>4, <1>5, <1>6

\* An actor that verifies takes its next step.
LEMMA VerificationStepKeeps ==
  ASSUME ActorsAgree, NEW a \in Actors, NEW o \in Objects,
         \/ CompleteUpload(a, o) \/ VerifyDirect(a, o) \/ ProviderGet(a, o)
         \/ CommitVerifiedUpload(a, o) \/ RejectContent(a, o) \/ RejectReport(a, o)
  PROVE  ActorsAgree' /\ OneCharge
<1>0. UNCHANGED todo => todo' \in [Reconcilers -> [Objects -> Candidate]]
  BY DEF ActorsAgree, RestTyped
<1>1. task[a].origin \in Origin /\ row[o].origin \in Origin
  BY DEF ActorsAgree, RowsTyped, RestTyped, Row, Task
<1>2. CASE CompleteUpload(a, o)
  BY <1>0, <1>1, <1>2, VerificationKeeps DEF CompleteUpload
<1>3. CASE VerifyDirect(a, o)
  BY <1>0, <1>1, <1>3, VerificationKeeps DEF VerifyDirect
<1>4. CASE ProviderGet(a, o)
  BY <1>4, GetKeeps
<1>5. CASE CommitVerifiedUpload(a, o)
  <2>1. CASE CurrentAttempt(a, o) /\ Reserved(o)
    BY <1>5, <2>1, CommitKeeps
  <2>2. CASE ~(CurrentAttempt(a, o) /\ Reserved(o))
    BY <1>0, <1>5, <2>2, QuietKeeps DEF CommitVerifiedUpload, ActorsAgree, RestTyped
  <2> QED
    BY <2>1, <2>2
<1>6. CASE FailVerification(a, o, "failed") \/ FailVerification(a, o, "quarantined")
  <2>1. CASE CurrentAttempt(a, o)
    BY <1>6, <2>1, RejectKeeps
  <2>2. CASE ~CurrentAttempt(a, o)
    BY <1>0, <1>6, <2>2, QuietKeeps DEF FailVerification, ActorsAgree, RestTyped
  <2> QED
    BY <2>1, <2>2
<1> QED
  BY <1>2, <1>3, <1>4, <1>5, <1>6 DEF RejectContent, RejectReport

\* An actor that deletes, or imports, takes its next step.
LEMMA DeletionStepKeeps ==
  ASSUME ActorsAgree, NEW a \in Actors, NEW o \in Objects,
         \/ DeleteObject(a, o) \/ CleanupFailedWrite(a, o) \/ ProviderDelete(a, o)
         \/ ProviderDeleteFails(a, o) \/ CompleteDeletion(a, o)
         \/ SyncRead(a, o) \/ ImportReady(a, o)
  PROVE  ActorsAgree' /\ OneCharge
<1>0. UNCHANGED todo => todo' \in [Reconcilers -> [Objects -> Candidate]]
  BY DEF ActorsAgree, RestTyped
<1>1. task[a].origin \in Origin /\ row[o].origin \in Origin
  BY DEF ActorsAgree, RowsTyped, RestTyped, Row, Task
<1>2. CASE DeleteObject(a, o)
  BY <1>0, <1>1, <1>2, DeletionKeeps DEF DeleteObject
<1>3. CASE CleanupFailedWrite(a, o)
  BY <1>0, <1>1, <1>3, DeletionKeeps DEF CleanupFailedWrite
<1>4. CASE ProviderDelete(a, o)
  BY <1>4, EraseKeeps
<1>5. CASE ProviderDeleteFails(a, o)
  <2>1. CASE StateOf(o, task[a].origin) = "deleting"
    BY <1>5, <2>1, RefusalKeeps
  <2>2. CASE StateOf(o, task[a].origin) # "deleting"
    BY <1>0, <1>5, <2>2, QuietKeeps DEF ProviderDeleteFails, ActorsAgree, RestTyped
  <2> QED
    BY <2>1, <2>2
<1>6. CASE CompleteDeletion(a, o)
  <2>1. CASE StateOf(o, task[a].origin) = "deleting"
    BY <1>6, <2>1, DeletionCompletedKeeps
  <2>2. CASE StateOf(o, task[a].origin) # "deleting"
    BY <1>0, <1>6, <2>2, QuietKeeps DEF CompleteDeletion, ActorsAgree, RestTyped
  <2> QED
    BY <2>1, <2>2
<1>7. CASE SyncRead(a, o)
  BY <1>0, <1>7, QuietKeeps DEF SyncRead, ActorsAgree, RestTyped
<1>8. CASE ImportReady(a, o)
  <2>1. CASE row[o].state \in {"none", "deleted"} /\ row[o].origin = "upload"
    BY <1>8, <2>1, ImportKeeps
  <2>2. CASE ~(row[o].state \in {"none", "deleted"} /\ row[o].origin = "upload")
    BY <1>0, <1>8, <2>2, QuietKeeps DEF ImportReady, ActorsAgree, RestTyped
  <2> QED
    BY <2>1, <2>2
<1> QED
  BY <1>2, <1>3, <1>4, <1>5, <1>6, <1>7, <1>8

\* Clients, other writers of the bucket, and time.
LEMMA WorldStepKeeps ==
  ASSUME ActorsAgree, NEW o \in Objects,
         \/ \E content \in {"good", "bad"} : ClientPut(o, content)
         \/ ExternalPut(o) \/ Expire(o) \/ LeaseEnds(o) \/ RetryFallsDue(o)
  PROVE  ActorsAgree' /\ OneCharge
<1>1. CASE (\E content \in {"good", "bad"} : ClientPut(o, content)) \/ ExternalPut(o)
  <2>1. /\ bytes' \in [Objects -> Content] /\ UNCHANGED <<row, usage, url, task, todo>>
        /\ \A p \in Objects : bytes'[p] = "none" => bytes[p] = "none"
    BY <1>1 DEF ActorsAgree, RestTyped, Content, ClientPut, ExternalPut
  <2>2. Touches(o) /\ url' \subseteq Objects
    BY <2>1 DEF ActorsAgree, RowsTyped, RestTyped, Touches
  <2> QED
    BY <2>1, <2>2, WorldKeeps
<1>2. CASE Expire(o) \/ LeaseEnds(o) \/ RetryFallsDue(o)
  <2>1. PICK q : /\ Becomes(o, q)
                 /\ \/ q = [row[o] EXCEPT !.expired = TRUE]
                    \/ q = [row[o] EXCEPT !.leased = FALSE]
                    \/ q = [row[o] EXCEPT !.waiting = FALSE]
    BY <1>2 DEF Expire, LeaseEnds, RetryFallsDue
  <2>2. /\ q \in Row /\ q.state = row[o].state /\ q.res = row[o].res
        /\ q.origin = row[o].origin /\ q.attempt = row[o].attempt
    BY <2>1, ClockTyped DEF ActorsAgree
  <2>3. Touches(o) /\ row'[o] = q
    BY <2>1, <2>2, BecomesWrites DEF ActorsAgree
  <2>4. /\ bytes' \in [Objects -> Content] /\ url' \subseteq Objects
        /\ UNCHANGED <<usage, bytes, task, todo>>
    BY <1>2 DEF ActorsAgree, RestTyped, Expire, LeaseEnds, RetryFallsDue
  <2> QED
    BY <2>2, <2>3, <2>4, WorldKeeps
<1> QED
  BY <1>1, <1>2

\* A reconciler makes its list, or takes a candidate from it.
LEMMA ReconcilerStepKeeps ==
  ASSUME ActorsAgree, NEW r \in Reconcilers,
         ListReconcileCandidates(r) \/ \E o \in Objects : Reconcile(r, o)
  PROVE  ActorsAgree' /\ OneCharge
<1>0. r \in Actors /\ Skipped \in Candidate
  BY DEF Actors, Skipped, Candidate, Origin
<1>1. CASE ListReconcileCandidates(r)
  <2>1. ASSUME NEW o \in Objects
        PROVE  (IF Verdict(o) = "skip" THEN Skipped
                ELSE [verdict |-> Verdict(o), origin |-> row[o].origin]) \in Candidate
    <3>1. Verdict(o) \in {"skip", "verify", "delete"}
      BY Zenon DEF Verdict
    <3>2. row[o].origin \in Origin
      BY DEF ActorsAgree, RowsTyped, Row
    <3> QED
      BY <1>0, <3>1, <3>2 DEF Candidate
  <2>2. todo' \in [Reconcilers -> [Objects -> Candidate]]
    BY <1>1, <2>1 DEF ActorsAgree, RestTyped, ListReconcileCandidates
  <2>3. RestTyped' /\ UNCHANGED <<row, usage, bytes, task>>
    BY <1>1, <2>2 DEF ActorsAgree, RestTyped, ListReconcileCandidates
  <2>4. TaskKnows(r)' /\ Deletes(r)' /\ Judged(r)'
    BY <1>0, <1>1, <2>3, IdleKnows DEF ListReconcileCandidates, Idle
  <2> QED
    BY <1>0, <2>3, <2>4, QuietStepKeeps DEF OneCharge
<1>2. ASSUME NEW o \in Objects, Reconcile(r, o) PROVE ActorsAgree' /\ OneCharge
  <2>1. /\ todo' \in [Reconcilers -> [Objects -> Candidate]]
        /\ todo[r][o].origin \in Origin
    BY <1>0, <1>2 DEF ActorsAgree, RestTyped, Reconcile, Candidate
  <2> QED
    BY <1>0, <1>2, <2>1, VerificationKeeps, DeletionKeeps DEF Reconcile
<1> QED
  BY <1>1, <1>2

\* A handler or reconciler ends between two of its steps.
LEMMA CrashKeeps ==
  ASSUME ActorsAgree, NEW a \in Actors, Crash(a)
  PROVE  ActorsAgree' /\ OneCharge
<1>1. Skipped \in Candidate
  BY DEF Skipped, Candidate, Origin
<1>2. todo' \in [Reconcilers -> [Objects -> Candidate]]
  BY <1>1 DEF ActorsAgree, RestTyped, Crash
<1>3. /\ task' \in [Actors -> Task] /\ \A b \in Actors \ {a} : task'[b] = task[b]
      /\ TaskKnows(a)' /\ Deletes(a)' /\ Judged(a)'
  BY FinishTyped, IdleKnows DEF Crash
<1>4. RestTyped' /\ UNCHANGED <<row, usage, bytes>>
  BY <1>2, <1>3 DEF ActorsAgree, RestTyped, Crash
<1> QED
  BY <1>3, <1>4, QuietStepKeeps DEF OneCharge

\* Every step keeps the agreement and moves at most one charge.
LEMMA NextKeeps ==
  ASSUME ActorsAgree, [Next]_vars
  PROVE  ActorsAgree' /\ OneCharge
<1>1. CASE UNCHANGED vars
  <2>1. UNCHANGED <<row, usage, bytes, url, task, todo>>
    BY <1>1 DEF vars
  <2> QED
    BY <2>1 DEF OneCharge, ActorsAgree, RowsTyped, RestTyped, RowAgrees, HasBytes,
         TaskKnows, Deletes, Judged, StateOf, CurrentAttempt
<1>2. ASSUME NEW a \in Actors, NEW o \in Objects,
             \/ Presign(a, o) \/ PresignSucceeds(a, o) \/ PresignFails(a, o)
             \/ DirectUpload(a, o) \/ ProviderPutFails(a, o)
             \/ CompleteUpload(a, o) \/ VerifyDirect(a, o) \/ ProviderGet(a, o)
             \/ CommitVerifiedUpload(a, o) \/ RejectContent(a, o) \/ RejectReport(a, o)
             \/ DeleteObject(a, o) \/ CleanupFailedWrite(a, o) \/ ProviderDelete(a, o)
             \/ ProviderDeleteFails(a, o) \/ CompleteDeletion(a, o)
             \/ SyncRead(a, o) \/ ImportReady(a, o)
             \/ \E content \in {"good", "bad"} : ProviderPut(a, o, content)
      PROVE  ActorsAgree' /\ OneCharge
  BY <1>2, UploadStepKeeps, VerificationStepKeeps, DeletionStepKeeps
<1> QED
  BY <1>1, <1>2, WorldStepKeeps, ReconcilerStepKeeps, CrashKeeps DEF Next

-----------------------------------------------------------------------------
(* The theorems.                                                           *)

\* No upload, no usage, no bytes: the invariant holds.
LEMMA InitUploads == Init => UploadsInv
<1> SUFFICES ASSUME Init PROVE UploadsInv
  OBVIOUS
<1>1. RowsTyped /\ RestTyped
  BY NoRowTyped DEF Init, RowsTyped, RestTyped, NoTask, Skipped, Task, Step, Origin,
       Content, Candidate
<1>2. \A o \in Objects : RowAgrees(o) /\ HasBytes(o)
  BY NoRowTyped DEF Init, RowAgrees, HasBytes
<1>3. \A a \in Actors : TaskKnows(a) /\ Deletes(a) /\ Judged(a)
  BY DEF Init, NoTask, TaskKnows, Deletes, Judged
<1>4. Holding("reserved") = {} /\ Holding("committed") = {}
  BY NoRowTyped DEF Init, Holding
<1>5. UsageMatches /\ usage \in [reserved : Nat, committed : Nat]
  BY <1>4, FS_EmptySet DEF Init, UsageMatches
<1>6. Uploads = {}
  BY NoRowTyped DEF Init, Uploads
<1>7. QuotaKept
  BY <1>6, FS_EmptySet, UploadsAssumption DEF QuotaKept, Uploads
<1> QED
  BY <1>1, <1>2, <1>3, <1>5, <1>7 DEF UploadsInv, ActorsAgree

\* Every step keeps the invariant.
LEMMA NextUploads == UploadsInv /\ [Next]_vars => UploadsInv'
<1> SUFFICES ASSUME UploadsInv, [Next]_vars PROVE UploadsInv'
  OBVIOUS
<1>1. ActorsAgree' /\ OneCharge
  BY NextKeeps DEF UploadsInv
<1>2. CASE UNCHANGED <<row, usage>>
  BY <1>1, <1>2 DEF UploadsInv, UsageMatches, QuotaKept, Holding
<1>3. ASSUME NEW o \in Objects, Touches(o), Charging(o) PROVE UploadsInv'
  BY <1>1, <1>3, UsageFollows, QuotaFollows DEF UploadsInv, ActorsAgree
<1> QED
  BY <1>1, <1>2, <1>3 DEF OneCharge

\* The invariant holds of every behaviour: rows, reservations, counters, bytes
\* and what each actor has read agree, whoever crashes where.
THEOREM UploadsInvariant == Spec => []UploadsInv
<1> QED
  BY InitUploads, NextUploads, PTL DEF Spec

\* Types are kept.
THEOREM UploadsTyped == Spec => []TypeOK
<1>1. UploadsInv => TypeOK
  BY DEF UploadsInv, ActorsAgree, RowsTyped, RestTyped, TypeOK
<1> QED
  BY <1>1, UploadsInvariant, PTL

\* The counters of the quota are exactly the sums over the rows
\* (upload_lifecycle.go), for any number of keys, handlers and reconcilers.
THEOREM UsageIsCounted == Spec => []UsageMatches
<1>1. UploadsInv => UsageMatches
  BY DEF UploadsInv
<1> QED
  BY <1>1, UploadsInvariant, PTL

\* Uploads never hold more than the quota (quotaExceeded).
THEOREM QuotaIsKept == Spec => []QuotaKept
<1>1. UploadsInv => QuotaKept
  BY DEF UploadsInv
<1> QED
  BY <1>1, UploadsInvariant, PTL

\* The bytes of a ready upload are never deleted by a deletion that was begun
\* before it became ready (BeginDeletion, CommitVerifiedUpload).
THEOREM ReadyHasItsBytes == Spec => []ReadyHasBytes
<1>1. UploadsInv => ReadyHasBytes
  BY DEF UploadsInv, ActorsAgree, HasBytes, ReadyHasBytes
<1> QED
  BY <1>1, UploadsInvariant, PTL

\* A step that changes a charge is a step of the ledger.
LEMMA LedgerStep ==
  ASSUME UploadsInv, NEW o \in Objects, Touches(o), Charging(o)
  PROVE  [Ledger!Next]_Charges
<1>0. Charges \in [Objects -> {"none", "reserved", "committed", "released"}]
  BY DEF UploadsInv, ActorsAgree, RowsTyped, Row, ReservationState, Charges
<1>1. Charges' = [Charges EXCEPT ![o] = row'[o].res] /\ Charges[o] = row[o].res
  BY DEF Touches, Charges
<1>2. Ledger!Charged = Holding("reserved") \cup Holding("committed")
  BY DEF Ledger!Charged, Holding, Charges
<1>3. Cardinality(Ledger!Charged) = usage.reserved + usage.committed
  BY <1>2, ChargedTogether DEF UploadsInv, ActorsAgree
<1>4. CASE SameCharge(o)
  BY <1>0, <1>1, <1>4 DEF SameCharge
<1>5. CASE Reserves(o)
  <2>1. Cardinality(Ledger!Charged) < Quota
    BY <1>3, <1>5, UploadsAssumption DEF Reserves, QuotaExceeded, UploadsInv
  <2>2. Ledger!Reserve(o)
    BY <1>1, <1>5, <2>1 DEF Reserves, Ledger!Reserve
  <2> QED
    BY <2>2 DEF Ledger!Next
<1>6. CASE Commits(o)
  BY <1>1, <1>6 DEF Commits, Ledger!Commit, Ledger!Next
<1>7. CASE Releases(o)
  <2>1. CASE row[o].res = "released"
    BY <1>0, <1>1, <1>7, <2>1 DEF Releases
  <2>2. CASE row[o].res \in {"reserved", "committed"}
    BY <1>1, <1>7, <2>2 DEF Releases, Ledger!Release, Ledger!Next
  <2>3. row[o].res \in {"none", "reserved", "committed", "released"}
    BY <1>0, <1>1
  <2> QED
    BY <1>7, <2>1, <2>2, <2>3 DEF Releases
<1>8. CASE Imports(o)
  BY <1>1, <1>8 DEF Imports, Ledger!Import, Ledger!Next
<1> QED
  BY <1>4, <1>5, <1>6, <1>7, <1>8 DEF Charging

\* The storage quota is what the ledger promises: every charge is reserved
\* within the quota, committed once and released once (Initiate,
\* CommitVerifiedUpload, FailInitiation, CompleteDeletion, ImportReady).
THEOREM LedgerIsKept == Spec => KeepsLedger
<1>1. Init => Ledger!Init
  BY DEF Init, NoRow, Ledger!Init, Charges
<1>2. UploadsInv /\ [Next]_vars => [Ledger!Next]_Charges
  <2> SUFFICES ASSUME UploadsInv, [Next]_vars
               PROVE  [Ledger!Next]_Charges
    OBVIOUS
  <2>1. OneCharge
    BY NextKeeps DEF UploadsInv
  <2>2. CASE UNCHANGED <<row, usage>>
    BY <2>2 DEF Charges
  <2> QED
    BY <2>1, <2>2, LedgerStep DEF OneCharge
<1> QED
  BY <1>1, <1>2, UploadsInvariant, PTL DEF Spec, KeepsLedger, Ledger!Spec
=============================================================================
