-------------------------- MODULE TrialCatalogProofs --------------------------
(***************************************************************************)
(* Theorems about TrialCatalog, for any number of extractions and          *)
(* reminders, any answers of the LLM and any seeding.                      *)
(***************************************************************************)
EXTENDS TrialCatalog, FiniteSetTheorems, WellFoundedInduction, TLAPS

----------------------------------------------------------------------------
(* The shape of a row.  What an answer makes of the titles and types is    *)
(* looked at further down; nothing is assumed of it here.                  *)

Times == 0 .. MaxTime + 1

RowOf(T, U, H, S) == [title : T, type : U, hash : H, status : S, verifiedAt : Times]

IsRow(row) == \E T, U, H, S : row \in RowOf(T, U, H, S)

Shaped ==
  /\ now \in Times
  /\ offers = [i \in Ids |-> offers[i]]
  /\ \A i \in Ids : offers[i] = NoRow \/ IsRow(offers[i])

LEMMA MaxTimeIsNat == MaxTime \in Nat
  BY TrialAssumption

LEMMA RowIsNot ==
  ASSUME NEW row, IsRow(row)
  PROVE  row # NoRow /\ row.verifiedAt \in Times
<1>1. PICK T, U, H, S : row \in RowOf(T, U, H, S)
  BY DEF IsRow
<1>2. "hash" \in DOMAIN row /\ row.verifiedAt \in Times
  BY <1>1 DEF RowOf
<1>3. "hash" \notin DOMAIN NoRow
  BY DEF NoRow
<1>. QED  BY <1>2, <1>3

(* What is inserted is a row that claims nothing.                          *)
LEMMA RowMade ==
  ASSUME NEW a, NEW b, NEW c
  PROVE  LET new == [title |-> a, type |-> b, hash |-> c, status |-> "unverified", verifiedAt |-> Never]
         IN  IsRow(new) /\ new.status = "unverified"
<1>. DEFINE new == [title |-> a, type |-> b, hash |-> c, status |-> "unverified", verifiedAt |-> Never]
<1>1. new \in RowOf({a}, {b}, {c}, {"unverified"}) /\ new.status = "unverified"
  BY MaxTimeIsNat DEF RowOf, Never, Times
<1>. QED  BY <1>1 DEF IsRow

----------------------------------------------------------------------------
(* What a step may do to a row without a check: remove it, set it back to  *)
(* unverified, or leave its claim and its last verdict.                    *)

Mild ==
  \A i \in Ids :
    \/ offers'[i] = NoRow
    \/ IsRow(offers'[i]) /\ offers'[i].status = "unverified"
    \/ /\ offers[i] # NoRow /\ IsRow(offers'[i])
       /\ offers'[i].status = offers[i].status /\ verdict'[i] = verdict[i]

LEMMA FlushIsMild ==
  ASSUME NEW db, NEW loaded, NEW new, NEW hash, db = NoRow \/ IsRow(db),
         loaded # NoRow => db # NoRow
  PROVE  LET row == FlushFacts(db, loaded, new, hash)
         IN  \/ row = db
             \/ IsRow(row) /\ row.status = "unverified"
             \/ db # NoRow /\ IsRow(row) /\ row.status = db.status
<1>. DEFINE row == FlushFacts(db, loaded, new, hash)
<1>1. CASE new = NoRow
  BY <1>1 DEF FlushFacts
<1>2. CASE new # NoRow /\ loaded = NoRow
  <2>1. row = [title |-> new.title, type |-> new.type, hash |-> hash,
               status |-> "unverified", verifiedAt |-> Never]
    BY <1>2 DEF FlushFacts
  <2>. QED  BY <2>1, RowMade
<1>3. CASE new # NoRow /\ loaded # NoRow
  <2>. DEFINE a == Column(db.title, loaded.title, new.title)
              b == Column(db.type, loaded.type, new.type)
  <2>1. row = [db EXCEPT !.title = a, !.type = b, !.hash = hash]
    BY <1>3 DEF FlushFacts
  <2>. HIDE DEF a, b, row
  <2>2. db # NoRow /\ IsRow(db)
    BY <1>3
  <2>3. PICK T, U, H, S : db \in RowOf(T, U, H, S)
    BY <2>2 DEF IsRow
  <2>4. row \in RowOf(T \cup {a}, U \cup {b}, H \cup {hash}, S) /\ row.status = db.status
    BY <2>1, <2>3 DEF RowOf
  <2>5. IsRow(row) /\ row.status = db.status
    BY <2>4 DEF IsRow
  <2>. QED  BY <2>2, <2>5 DEF row
<1>. QED  BY <1>1, <1>2, <1>3

(* The extraction, whatever the LLM answers and whenever it commits.       *)
LEMMA ExtractionIsMild ==
  ASSUME Shaped, NEW e \in Extractors, NEW answer, CommitExtraction(e, answer)
  PROVE  Mild /\ offers' = [i \in Ids |-> offers'[i]]
              /\ \A i \in Ids : offers[i] # NoRow => offers'[i] # NoRow
<1>. DEFINE loaded == session[e].rows
<1>1. PICK rows : offers' = [i \in Ids |-> FlushFacts(offers[i], loaded[i], rows[i], session[e].page)]
  BY DEF CommitExtraction
<1>2. \A i \in Ids : loaded[i] # NoRow => offers[i] # NoRow
  BY DEF CommitExtraction, NoneDeleted, Listed
<1>3. verdict' = verdict
  BY DEF CommitExtraction
<1>. HIDE DEF loaded
<1>4. ASSUME NEW i \in Ids
      PROVE  \/ offers'[i] = offers[i]
             \/ IsRow(offers'[i]) /\ offers'[i].status = "unverified"
             \/ offers[i] # NoRow /\ IsRow(offers'[i]) /\ offers'[i].status = offers[i].status
  <2>1. offers'[i] = FlushFacts(offers[i], loaded[i], rows[i], session[e].page)
    BY <1>1
  <2>2. offers[i] = NoRow \/ IsRow(offers[i])
    BY DEF Shaped
  <2>. QED  BY <1>2, <2>1, <2>2, FlushIsMild
<1>5. Mild
  BY <1>3, <1>4 DEF Mild, Shaped
<1>6. \A i \in Ids : offers[i] # NoRow => offers'[i] # NoRow
  BY <1>4, RowIsNot
<1>. QED  BY <1>1, <1>5, <1>6

(* The rows that the seeding leaves, before it writes the curated ones.    *)
LEMMA UpsertedRows ==
  ASSUME NEW rows, \A i \in Ids : rows[i] = NoRow \/ IsRow(rows[i])
  PROVE  /\ Upserted(rows) = [i \in Ids |-> Upserted(rows)[i]]
         /\ \A i \in Ids :
              \/ Upserted(rows)[i] = rows[i]
              \/ IsRow(Upserted(rows)[i]) /\ Upserted(rows)[i].status = "unverified"
<1>. DEFINE missing == SetToSeq({c \in Curated : Titled(rows, c.title) = {}})
            known == {c \in Curated : Titled(rows, c.title) # {}}
            Pick(i) == CHOOSE c \in known : i \in Titled(rows, c.title)
            Value(i) == IF i > lastId /\ i <= lastId + Len(missing) THEN NewCurated(missing[i - lastId])
                        ELSE IF \E c \in known : i \in Titled(rows, c.title)
                        THEN CuratedRow(rows[i], Pick(i)) ELSE rows[i]
<1>1. Upserted(rows) = [i \in Ids |-> Value(i)]
  BY DEF Upserted
<1>2. \A c : IsRow(NewCurated(c)) /\ NewCurated(c).status = "unverified"
  BY RowMade DEF NewCurated
<1>3. ASSUME NEW i \in Ids, NEW c, rows[i] # NoRow
      PROVE  IsRow(CuratedRow(rows[i], c)) /\ CuratedRow(rows[i], c).status = "unverified"
  <2>1. IsRow(rows[i])
    BY <1>3
  <2>2. CuratedRow(rows[i], c) = [rows[i] EXCEPT !.type = c.type, !.status = "unverified"]
    BY DEF CuratedRow
  <2>3. PICK T, U, H, S : rows[i] \in RowOf(T, U, H, S)
    BY <2>1 DEF IsRow
  <2>4. /\ CuratedRow(rows[i], c) \in RowOf(T, U \cup {c.type}, H, S \cup {"unverified"})
        /\ CuratedRow(rows[i], c).status = "unverified"
    BY <2>2, <2>3 DEF RowOf
  <2>. QED  BY <2>4 DEF IsRow
<1>4. \A i \in Ids, c \in known : i \in Titled(rows, c.title) => rows[i] # NoRow
  BY DEF Titled, Listed
<1>. HIDE DEF missing, known, Pick
<1>5. ASSUME NEW i \in Ids
      PROVE  Value(i) = rows[i] \/ (IsRow(Value(i)) /\ Value(i).status = "unverified")
  <2>1. CASE i > lastId /\ i <= lastId + Len(missing)
    BY <1>2, <2>1
  <2>2. CASE ~(i > lastId /\ i <= lastId + Len(missing)) /\ \E c \in known : i \in Titled(rows, c.title)
    BY <1>3, <1>4, <2>2
  <2>3. CASE ~(i > lastId /\ i <= lastId + Len(missing)) /\ ~\E c \in known : i \in Titled(rows, c.title)
    BY <2>3
  <2>. QED  BY <2>1, <2>2, <2>3
<1>. HIDE DEF Value
<1>. QED  BY <1>1, <1>5

LEMMA SeedIsMild ==
  ASSUME Shaped, Seed
  PROVE  Mild /\ offers' = [i \in Ids |-> offers'[i]]
<1>1. PICK gone \in SUBSET Listed(offers) :
        LET kept == Without(offers, gone)
            deduped == Without(kept, Duplicates(kept))
        IN  /\ offers' = Upserted(deduped)
            /\ verdict' = [i \in Ids |-> IF deduped[i] = NoRow THEN "none" ELSE verdict[i]]
  BY DEF Seed, Retirements
<1>. DEFINE kept == Without(offers, gone)
            deduped == Without(kept, Duplicates(kept))
<1>2. \A i \in Ids : deduped[i] = NoRow \/ deduped[i] = offers[i]
  BY DEF Without
<1>. HIDE DEF deduped
<1>3. \A i \in Ids : deduped[i] = NoRow \/ IsRow(deduped[i])
  BY <1>2 DEF Shaped
<1>4. /\ offers' = Upserted(deduped)
      /\ verdict' = [i \in Ids |-> IF deduped[i] = NoRow THEN "none" ELSE verdict[i]]
  BY <1>1 DEF deduped
<1>5. /\ offers' = [i \in Ids |-> offers'[i]]
      /\ \A i \in Ids : offers'[i] = deduped[i]
                        \/ (IsRow(offers'[i]) /\ offers'[i].status = "unverified")
  BY <1>3, <1>4, UpsertedRows
<1>. QED  BY <1>2, <1>3, <1>4, <1>5 DEF Mild

----------------------------------------------------------------------------
(* The inductive invariant, of the runs with one verification at a time.   *)
(* Between its load and its commit the badge of an offer may have been     *)
(* taken back, and nothing else happened to it: so the commit, which keeps *)
(* the row's status where the check found what was loaded, writes its      *)
(* verdict or leaves the row without a claim.                              *)

OneVerifier == \A v, w \in Verifiers : v = w

Claims == \A i \in Ids : offers[i] # NoRow => offers[i].status \in {"unverified", verdict[i]}

CopiesCover ==
  \A v \in Verifiers : \A i \in DOMAIN session[v].status :
    /\ i \in Ids
    /\ offers[i] # NoRow => offers[i].status \in {"unverified", session[v].status[i]}

CatalogInv ==
  /\ Shaped
  /\ session = [s \in Sessions |-> session[s]]
  /\ OneVerifier => Claims /\ CopiesCover

LEMMA InitCatalogInv == Init => CatalogInv
<1>. SUFFICES ASSUME Init PROVE CatalogInv
  OBVIOUS
<1>1. Shaped
  BY MaxTimeIsNat DEF Init, Shaped, Times
<1>2. session = [s \in Sessions |-> session[s]]
  BY DEF Init
<1>3. Claims
  BY DEF Init, Claims
<1>4. \A v \in Verifiers : session[v] = Idle
  BY DEF Init, Sessions
<1>5. DOMAIN Idle.status = {}
  BY DEF Idle
<1>6. CopiesCover
  BY <1>4, <1>5 DEF CopiesCover
<1>. QED  BY <1>1, <1>2, <1>3, <1>6 DEF CatalogInv

(* A mild step of the rows under which no verification loads anything.     *)
LEMMA MildKeepsInv ==
  ASSUME CatalogInv, Mild, offers' = [i \in Ids |-> offers'[i]], now' = now,
         session' = [s \in Sessions |-> session'[s]],
         \A v \in Verifiers : session'[v] = session[v]
  PROVE  CatalogInv'
<1>1. Shaped'
  BY DEF CatalogInv, Shaped, Mild
<1>2. ASSUME OneVerifier PROVE Claims' /\ CopiesCover'
  <2>1. Claims /\ CopiesCover
    BY <1>2 DEF CatalogInv
  <2>2. Claims'
    BY <2>1 DEF Claims, Mild
  <2>3. CopiesCover'
    BY <2>1 DEF CopiesCover, Mild
  <2>. QED  BY <2>2, <2>3
<1>. QED  BY <1>1, <1>2 DEF CatalogInv, OneVerifier

(* A step that leaves the rows, their verdicts and the clock.              *)
LEMMA SessionStepKeepsInv ==
  ASSUME CatalogInv, UNCHANGED <<offers, verdict, now>>,
         NEW s \in Sessions, NEW new, session' = [session EXCEPT ![s] = new],
         \A i \in DOMAIN new.status :
           i \in Ids /\ (offers[i] # NoRow => offers[i].status \in {"unverified", new.status[i]})
  PROVE  CatalogInv'
<1>1. Shaped'
  BY DEF CatalogInv, Shaped
<1>2. session' = [t \in Sessions |-> session'[t]]
  BY DEF CatalogInv
<1>3. \A t \in Sessions : session'[t] = IF t = s THEN new ELSE session[t]
  BY DEF CatalogInv
<1>4. ASSUME OneVerifier PROVE Claims' /\ CopiesCover'
  <2>1. Claims /\ CopiesCover
    BY <1>4 DEF CatalogInv
  <2>2. Claims'
    BY <2>1 DEF Claims
  <2>3. ASSUME NEW v \in Verifiers, NEW i \in DOMAIN session'[v].status
        PROVE  i \in Ids /\ (offers[i] # NoRow => offers[i].status \in {"unverified", session'[v].status[i]})
    <3>1. v \in Sessions
      BY DEF Sessions
    <3>2. CASE v = s
      BY <1>3, <2>3, <3>1, <3>2
    <3>3. CASE v # s
      BY <1>3, <2>1, <2>3, <3>1, <3>3 DEF CopiesCover
    <3>. QED  BY <3>2, <3>3
  <2>4. CopiesCover'
    BY <2>3 DEF CopiesCover
  <2>. QED  BY <2>2, <2>4
<1>. QED  BY <1>1, <1>2, <1>4 DEF CatalogInv, OneVerifier

LEMMA IdleLoadsNothing == DOMAIN Idle.status = {}
  BY DEF Idle

LEMMA VerificationKeepsInv ==
  ASSUME CatalogInv, NEW v \in Verifiers, NEW outcome, CommitVerification(v, outcome)
  PROVE  CatalogInv'
<1>. DEFINE loaded == session[v].status
            taken == DOMAIN loaded
<1>1. /\ offers' = [i \in Ids |-> IF i \in taken
           THEN RecordVerification(offers[i], loaded[i], outcome[i]) ELSE offers[i]]
      /\ verdict' = [i \in Ids |-> IF i \in taken THEN NewStatus(outcome[i]) ELSE verdict[i]]
      /\ session' = [session EXCEPT ![v] = Idle]
      /\ now' = now
      /\ \A i \in taken : i \in Ids /\ offers[i] # NoRow
  BY DEF CommitVerification, NoneDeleted, Listed
<1>2. ASSUME NEW i \in taken
      PROVE  /\ IsRow(offers'[i])
             /\ offers'[i].status = Column(offers[i].status, loaded[i], NewStatus(outcome[i]))
  <2>. DEFINE status == Column(offers[i].status, loaded[i], NewStatus(outcome[i]))
  <2>1. offers'[i] = [offers[i] EXCEPT !.status = status, !.verifiedAt = now]
    BY <1>1, <1>2 DEF RecordVerification
  <2>2. IsRow(offers[i]) /\ now \in Times
    BY <1>1, <1>2 DEF CatalogInv, Shaped
  <2>3. PICK T, U, H, S : offers[i] \in RowOf(T, U, H, S)
    BY <2>2 DEF IsRow
  <2>. HIDE DEF status
  <2>4. offers'[i] \in RowOf(T, U, H, S \cup {status}) /\ offers'[i].status = status
    BY <2>1, <2>2, <2>3 DEF RowOf
  <2>. QED  BY <2>4 DEF IsRow, status
<1>3. Shaped'
  <2>1. \A i \in Ids : i \notin taken => offers'[i] = offers[i]
    BY <1>1
  <2>2. \A i \in Ids : offers'[i] = NoRow \/ IsRow(offers'[i])
    BY <1>2, <2>1 DEF CatalogInv, Shaped
  <2>. QED  BY <1>1, <2>2 DEF CatalogInv, Shaped
<1>4. session' = [t \in Sessions |-> session'[t]]
  BY <1>1 DEF CatalogInv
<1>5. ASSUME OneVerifier PROVE Claims' /\ CopiesCover'
  <2>1. Claims /\ CopiesCover
    BY <1>5 DEF CatalogInv
  <2>2. ASSUME NEW i \in taken PROVE offers'[i].status \in {"unverified", verdict'[i]}
    <3>1. offers[i].status \in {"unverified", loaded[i]}
      BY <1>1, <2>1, <2>2 DEF CopiesCover
    <3>2. verdict'[i] = NewStatus(outcome[i])
      BY <1>1, <2>2
    <3>. QED  BY <1>2, <2>2, <3>1, <3>2 DEF Column
  <2>3. ASSUME NEW i \in Ids, i \notin taken, offers'[i] # NoRow
        PROVE  offers'[i].status \in {"unverified", verdict'[i]}
    BY <1>1, <2>1, <2>3 DEF Claims
  <2>4. Claims'
    BY <2>2, <2>3 DEF Claims
  <2>5. session'[v] = Idle
    BY <1>1 DEF CatalogInv, Sessions
  <2>6. \A w \in Verifiers : session'[w] = Idle
    BY <1>5, <2>5 DEF OneVerifier
  <2>7. CopiesCover'
    BY <2>6, IdleLoadsNothing DEF CopiesCover
  <2>. QED  BY <2>4, <2>7
<1>. QED  BY <1>3, <1>4, <1>5 DEF CatalogInv, OneVerifier

LEMMA NextCatalogInv ==
  ASSUME CatalogInv, Next
  PROVE  CatalogInv'
<1>1. ASSUME NEW e \in Extractors, Extract(e) PROVE CatalogInv'
  <2>1. e \in Sessions /\ e \notin Verifiers
    BY TrialAssumption DEF Sessions
  <2>2. CASE FetchPage(e)
    <3>. DEFINE new == [Idle EXCEPT !.task = "extract", !.page = page,
                                    !.rows = [i \in Ids |-> Facts(offers[i])]]
    <3>1. session' = [session EXCEPT ![e] = new] /\ UNCHANGED <<offers, verdict, now>>
      BY <2>2 DEF FetchPage
    <3>2. DOMAIN new.status = {}
      BY DEF Idle
    <3>. HIDE DEF new
    <3>. QED  BY <2>1, <3>1, <3>2, SessionStepKeepsInv
  <2>3. CASE \E answer \in Answers : CommitExtraction(e, answer)
    <3>1. PICK answer : CommitExtraction(e, answer)
      BY <2>3
    <3>2. Mild /\ offers' = [i \in Ids |-> offers'[i]]
      BY <3>1, ExtractionIsMild DEF CatalogInv
    <3>3. session' = [session EXCEPT ![e] = Idle] /\ now' = now
      BY <3>1 DEF CommitExtraction
    <3>4. /\ session' = [s \in Sessions |-> session'[s]]
          /\ \A v \in Verifiers : session'[v] = session[v]
      BY <2>1, <3>3 DEF CatalogInv, Sessions
    <3>. QED  BY <3>2, <3>3, <3>4, MildKeepsInv
  <2>. QED  BY <1>1, <2>2, <2>3 DEF Extract
<1>2. ASSUME NEW v \in Verifiers, NEW task, NEW taken, taken \subseteq Listed(offers),
             LoadForVerification(v, task, taken)
      PROVE  CatalogInv'
  <2>. DEFINE new == [Idle EXCEPT !.task = task, !.status = [i \in taken |-> offers[i].status]]
  <2>1. v \in Sessions
    BY DEF Sessions
  <2>2. session' = [session EXCEPT ![v] = new] /\ UNCHANGED <<offers, verdict, now>>
    BY <1>2 DEF LoadForVerification
  <2>3. new.status = [i \in taken |-> offers[i].status]
    BY DEF Idle
  <2>4. \A i \in DOMAIN new.status : i \in Ids /\ offers[i].status = new.status[i]
    BY <1>2, <2>3 DEF Listed
  <2>. HIDE DEF new
  <2>. QED  BY <2>1, <2>2, <2>4, SessionStepKeepsInv
<1>3. ASSUME NEW v \in Verifiers, VerifySweep(v) PROVE CatalogInv'
  <2>1. PICK taken \in Batches : LoadForVerification(v, "sweep", taken)
    BY <1>3 DEF VerifySweep
  <2>2. taken \subseteq Listed(offers)
    BY DEF Batches, Due, Listed
  <2>. QED  BY <1>2, <2>1, <2>2
<1>4. ASSUME NEW v \in Verifiers, VerifyOne(v) PROVE CatalogInv'
  <2>1. PICK i \in Listed(offers) : LoadForVerification(v, "single", {i})
    BY <1>4 DEF VerifyOne
  <2>. QED  BY <1>2, <2>1
<1>5. ASSUME NEW s \in Sessions, Abort(s) PROVE CatalogInv'
  BY <1>5, SessionStepKeepsInv, IdleLoadsNothing DEF Abort
<1>6. ASSUME NEW v \in Verifiers, FinishVerification(v) PROVE CatalogInv'
  BY <1>5, <1>6, VerificationKeepsInv DEF FinishVerification, FailStale, Sessions
<1>7. ASSUME Seed PROVE CatalogInv'
  <2>1. Mild /\ offers' = [i \in Ids |-> offers'[i]]
    BY <1>7, SeedIsMild DEF CatalogInv
  <2>2. session' = session /\ now' = now
    BY <1>7 DEF Seed
  <2>. QED  BY <2>1, <2>2, MildKeepsInv DEF CatalogInv
<1>8. ASSUME UNCHANGED <<offers, verdict, session>>, now' \in Times PROVE CatalogInv'
  BY <1>8 DEF CatalogInv, Shaped, OneVerifier, Claims, CopiesCover
<1>9. CASE \E r \in Reminders : SetReminder(r)
  BY <1>8, <1>9 DEF SetReminder, CatalogInv, Shaped
<1>10. CASE PageChanges
  BY <1>8, <1>10 DEF PageChanges, CatalogInv, Shaped
<1>11. CASE Tick
  BY <1>8, <1>11, MaxTimeIsNat DEF Tick, CatalogInv, Shaped, Times
<1>. QED  BY <1>1, <1>3, <1>4, <1>5, <1>6, <1>7, <1>9, <1>10, <1>11 DEF Next

(* With one verification at a time an offer claims what its latest check   *)
(* found or nothing, whatever extractions and seedings write between the   *)
(* load of a verification and its commit (trial_verifier.py:198).          *)
THEOREM StatusFollowsVerdict == Spec => []StatusIsLastVerdict
<1>1. Init => CatalogInv
  BY InitCatalogInv
<1>2. CatalogInv /\ [Next]_vars => CatalogInv'
  <2>1. ASSUME CatalogInv, UNCHANGED vars PROVE CatalogInv'
    BY <2>1 DEF vars, CatalogInv, Shaped, OneVerifier, Claims, CopiesCover
  <2>. QED  BY <2>1, NextCatalogInv
<1>3. CatalogInv => StatusIsLastVerdict
  BY DEF CatalogInv, OneVerifier, Claims, StatusIsLastVerdict, Listed
<1>. QED  BY <1>1, <1>2, <1>3, PTL DEF Spec

----------------------------------------------------------------------------
(* Reminders.  The deduplication keeps the best of the offers of one title:*)
(* a verified one if there is one, of these the last checked, of these the *)
(* oldest.  There is always exactly one such, and for the one that is kept *)
(* the choice is the same, so no reminder is moved to a row that goes.     *)

LEMMA SetHasLeast ==
  ASSUME NEW T \in SUBSET Nat, T # {}
  PROVE  \E x \in T : \A y \in T : x <= y
<1>1. PICK x \in T : \A y \in T : ~(<<y, x>> \in OpToRel(<, Nat))
  BY NatLessThanWellFounded, WFMin, Zenon
<1>2. ASSUME NEW y \in T PROVE x <= y
  <2>1. <<y, x>> \in Nat \X Nat
    OBVIOUS
  <2>2. ~(y < x)
    BY <1>1, <2>1 DEF OpToRel
  <2>. QED  BY <2>2
<1>. QED  BY <1>2

LEMMA HasLeast ==
  ASSUME NEW T, T # {}, NEW f, \A k \in T : f[k] \in Nat
  PROVE  \E x \in T : \A y \in T : f[x] <= f[y]
<1>. DEFINE V == {f[k] : k \in T}
<1>1. V \in SUBSET Nat /\ V # {}
  OBVIOUS
<1>. HIDE DEF V
<1>2. PICK v \in V : \A y \in V : v <= y
  BY <1>1, SetHasLeast
<1>. QED  BY <1>2 DEF V

LEMMA BestTwin ==
  ASSUME NEW rows, \A i \in Ids : rows[i] = NoRow \/ IsRow(rows[i]),
         NEW T \in SUBSET Listed(rows), T # {}
  PROVE  \E k \in T : \A j \in T \ {k} : Better(rows, k, j)
<1>. DEFINE badge == [k \in T |-> IF rows[k].status = "verified" THEN 0 ELSE 1]
            age == [k \in T |-> MaxTime + 1 - rows[k].verifiedAt]
<1>1. \A k \in T : k \in Ids /\ k \in Nat /\ rows[k].verifiedAt \in Times
  BY RowIsNot DEF Listed, Ids
<1>2. \A k \in T : badge[k] \in Nat /\ age[k] \in Nat
  BY <1>1, MaxTimeIsNat DEF Times
<1>3. PICK a \in T : \A j \in T : badge[a] <= badge[j]
  BY <1>2, HasLeast
<1>. DEFINE A == {k \in T : badge[k] = badge[a]}
<1>4. PICK b \in A : \A j \in A : age[b] <= age[j]
  <2>1. A # {} /\ \A k \in A : age[k] \in Nat
    BY <1>2
  <2>. HIDE DEF A, age
  <2>. QED  BY <2>1, HasLeast
<1>. DEFINE B == {k \in A : age[k] = age[b]}
<1>5. PICK c \in B : \A j \in B : c <= j
  <2>1. B # {} /\ B \in SUBSET Nat
    BY <1>1, <1>4
  <2>. HIDE DEF B
  <2>. QED  BY <2>1, SetHasLeast
<1>6. c \in T
  BY <1>5
<1>7. ASSUME NEW j \in T \ {c} PROVE Better(rows, c, j)
  <2>1. CASE badge[j] # badge[a]
    <3>1. badge[c] = badge[a] /\ badge[a] < badge[j]
      BY <1>2, <1>3, <1>5, <2>1
    <3>2. rows[c].status = "verified" /\ rows[j].status # "verified"
      BY <1>6, <3>1
    <3>. QED  BY <3>2 DEF Better
  <2>2. CASE badge[j] = badge[a] /\ age[j] # age[b]
    <3>1. badge[c] = badge[j] /\ age[c] < age[j]
      BY <1>2, <1>4, <1>5, <2>2
    <3>2. rows[c].verifiedAt > rows[j].verifiedAt
      BY <1>1, <1>6, <3>1, MaxTimeIsNat DEF Times
    <3>3. rows[c].status = "verified" <=> rows[j].status = "verified"
      BY <1>6, <3>1
    <3>. QED  BY <3>2, <3>3 DEF Better
  <2>3. CASE badge[j] = badge[a] /\ age[j] = age[b]
    <3>1. badge[c] = badge[j] /\ age[c] = age[j] /\ c < j
      BY <1>1, <1>5, <1>6, <2>3
    <3>2. rows[c].verifiedAt = rows[j].verifiedAt
      BY <1>1, <1>6, <3>1, MaxTimeIsNat DEF Times
    <3>3. rows[c].status = "verified" <=> rows[j].status = "verified"
      BY <1>6, <3>1
    <3>. QED  BY <3>1, <3>2, <3>3 DEF Better
  <2>. QED  BY <2>1, <2>2, <2>3
<1>. QED  BY <1>6, <1>7

LEMMA KeptIsKept ==
  ASSUME NEW rows, \A i \in Ids : rows[i] = NoRow \/ IsRow(rows[i]), NEW i \in Listed(rows)
  PROVE  Kept(rows, i) \in Listed(rows) /\ Kept(rows, i) \notin Duplicates(rows)
<1>. DEFINE k == Kept(rows, i)
<1>1. Twins(rows, i) \in SUBSET Listed(rows) /\ i \in Twins(rows, i)
  BY DEF Twins
<1>2. k \in Twins(rows, i)
  BY <1>1, BestTwin DEF Kept
<1>3. k \in Listed(rows) /\ NameOf(rows[k]) = NameOf(rows[i])
  BY <1>2 DEF Twins
<1>4. Twins(rows, k) = Twins(rows, i)
  BY <1>3 DEF Twins
<1>5. Kept(rows, k) = k
  BY <1>4 DEF Kept
<1>. QED  BY <1>3, <1>5 DEF Duplicates

LEMMA MovedToKept ==
  ASSUME NEW rows, \A i \in Ids : rows[i] = NoRow \/ IsRow(rows[i]),
         NEW to, NEW r \in Reminders, to[r] \in {Unset, NoId} \cup Listed(rows)
  PROVE  Moved(rows, to)[r] \in {Unset, NoId} \cup Listed(Without(rows, Duplicates(rows)))
<1>1. Listed(Without(rows, Duplicates(rows))) = Listed(rows) \ Duplicates(rows)
  BY DEF Listed, Without
<1>2. CASE to[r] \in Duplicates(rows)
  <2>1. to[r] \in Listed(rows)
    BY <1>2 DEF Duplicates
  <2>2. Moved(rows, to)[r] = Kept(rows, to[r])
    BY <1>2 DEF Moved
  <2>. QED  BY <1>1, <2>1, <2>2, KeptIsKept
<1>3. CASE to[r] \notin Duplicates(rows)
  BY <1>1, <1>3 DEF Moved
<1>. QED  BY <1>2, <1>3

LEMMA SeedKeepsReminders ==
  ASSUME Shaped, ReminderHasOffer, Seed
  PROVE  ReminderHasOffer'
<1>1. PICK gone \in SUBSET Listed(offers) :
        LET kept == Without(offers, gone)
            cut == [r \in Reminders |-> IF reminder[r] \in gone THEN NoId ELSE reminder[r]]
        IN  /\ reminder' = Moved(kept, cut)
            /\ offers' = Upserted(Without(kept, Duplicates(kept)))
  BY DEF Seed, Retirements
<1>. DEFINE kept == Without(offers, gone)
            cut == [r \in Reminders |-> IF reminder[r] \in gone THEN NoId ELSE reminder[r]]
            deduped == Without(kept, Duplicates(kept))
<1>2. reminder' = Moved(kept, cut) /\ offers' = Upserted(deduped)
  BY <1>1
<1>3. \A i \in Ids : kept[i] = NoRow \/ IsRow(kept[i])
  BY DEF Shaped, Without
<1>4. \A r \in Reminders : cut[r] \in {Unset, NoId} \cup Listed(kept)
  BY DEF ReminderHasOffer, Listed, Without
<1>. HIDE DEF kept, cut
<1>5. \A i \in Ids : deduped[i] = NoRow \/ IsRow(deduped[i])
  BY <1>3 DEF Without
<1>6. \A r \in Reminders : Moved(kept, cut)[r] \in {Unset, NoId} \cup Listed(deduped)
  BY <1>3, <1>4, MovedToKept
<1>. HIDE DEF deduped
<1>7. \A i \in Listed(deduped) : i \in Listed(offers')
  <2>1. ASSUME NEW i \in Listed(deduped) PROVE i \in Ids /\ offers'[i] # NoRow
    <3>1. i \in Ids /\ deduped[i] # NoRow
      BY DEF Listed
    <3>2. offers'[i] = deduped[i] \/ IsRow(offers'[i])
      BY <1>2, <1>5, <3>1, UpsertedRows
    <3>. QED  BY <3>1, <3>2, RowIsNot
  <2>. QED  BY <2>1 DEF Listed
<1>. QED  BY <1>2, <1>6, <1>7 DEF ReminderHasOffer

(* A reminder never refers to an offer that is gone, whatever the seeding  *)
(* retires, merges or renames (seed_trials.py:429).                        *)
THEOREM RemindersFollow == Spec => []ReminderHasOffer
<1>. DEFINE RemindersInv ==
       CatalogInv /\ reminder = [r \in Reminders |-> reminder[r]] /\ ReminderHasOffer
<1>1. Init => RemindersInv
  <2>1. ASSUME Init PROVE reminder = [r \in Reminders |-> reminder[r]] /\ ReminderHasOffer
    BY <2>1 DEF Init, ReminderHasOffer
  <2>. QED  BY <2>1, InitCatalogInv
<1>2. ASSUME RemindersInv, Next
      PROVE  reminder' = [r \in Reminders |-> reminder'[r]] /\ ReminderHasOffer'
  <2>1. ASSUME UNCHANGED reminder, \A i \in Ids : offers[i] # NoRow => offers'[i] # NoRow
        PROVE  reminder' = [r \in Reminders |-> reminder'[r]] /\ ReminderHasOffer'
    <3>1. \A i \in Listed(offers) : i \in Listed(offers')
      BY <2>1 DEF Listed
    <3>. QED  BY <1>2, <2>1, <3>1 DEF ReminderHasOffer
  <2>2. ASSUME NEW e \in Extractors, Extract(e)
        PROVE  UNCHANGED reminder /\ \A i \in Ids : offers[i] # NoRow => offers'[i] # NoRow
    <3>1. CASE FetchPage(e)
      BY <3>1 DEF FetchPage
    <3>2. CASE \E answer \in Answers : CommitExtraction(e, answer)
      <4>1. PICK answer : CommitExtraction(e, answer)
        BY <3>2
      <4>2. \A i \in Ids : offers[i] # NoRow => offers'[i] # NoRow
        BY <1>2, <4>1, ExtractionIsMild DEF CatalogInv
      <4>3. UNCHANGED reminder
        BY <4>1 DEF CommitExtraction
      <4>. QED  BY <4>2, <4>3
    <3>. QED  BY <2>2, <3>1, <3>2 DEF Extract
  <2>3. ASSUME NEW v \in Verifiers, NEW outcome, CommitVerification(v, outcome)
        PROVE  UNCHANGED reminder /\ \A i \in Ids : offers[i] # NoRow => offers'[i] # NoRow
    <3>1. ASSUME NEW i \in Ids, offers[i] # NoRow PROVE offers'[i] # NoRow
      <4>1. IsRow(offers[i])
        BY <1>2, <3>1 DEF CatalogInv, Shaped
      <4>2. \/ offers'[i] = offers[i]
            \/ offers'[i] = RecordVerification(offers[i], session[v].status[i], outcome[i])
        BY <2>3 DEF CommitVerification
      <4>3. "hash" \in DOMAIN offers[i]
        BY <4>1 DEF IsRow, RowOf
      <4>4. "hash" \in DOMAIN offers'[i]
        BY <4>2, <4>3 DEF RecordVerification
      <4>. QED  BY <4>4 DEF NoRow
    <3>. QED  BY <2>3, <3>1 DEF CommitVerification
  <2>4. ASSUME NEW v \in Verifiers, VerifySweep(v) \/ VerifyOne(v) \/ FailStale(v)
        PROVE  UNCHANGED <<reminder, offers>>
    BY <2>4 DEF VerifySweep, VerifyOne, LoadForVerification, FailStale, Abort
  <2>5. ASSUME NEW s \in Sessions, Abort(s)
        PROVE  UNCHANGED <<reminder, offers>>
    BY <2>5 DEF Abort
  <2>6. CASE Seed
    <3>1. ReminderHasOffer'
      BY <1>2, <2>6, SeedKeepsReminders DEF CatalogInv
    <3>2. reminder' = [r \in Reminders |-> reminder'[r]]
      BY <2>6 DEF Seed, Moved
    <3>. QED  BY <3>1, <3>2
  <2>7. ASSUME NEW r \in Reminders, SetReminder(r)
        PROVE  reminder' = [q \in Reminders |-> reminder'[q]] /\ ReminderHasOffer'
    BY <1>2, <2>7 DEF SetReminder, ReminderHasOffer
  <2>8. CASE PageChanges \/ Tick
    BY <2>1, <2>8 DEF PageChanges, Tick
  <2>9. CASE \E v \in Verifiers : VerifySweep(v) \/ VerifyOne(v) \/ FinishVerification(v)
    BY <2>1, <2>3, <2>4, <2>9 DEF FinishVerification
  <2>. QED  BY <1>2, <2>1, <2>2, <2>5, <2>6, <2>7, <2>8, <2>9 DEF Next
<1>3. RemindersInv /\ [Next]_vars => RemindersInv'
  <2>1. ASSUME CatalogInv, UNCHANGED vars PROVE CatalogInv'
    BY <2>1 DEF vars, CatalogInv, Shaped, OneVerifier, Claims, CopiesCover
  <2>2. ASSUME RemindersInv, UNCHANGED vars PROVE RemindersInv'
    BY <2>1, <2>2 DEF vars, ReminderHasOffer
  <2>3. ASSUME RemindersInv, Next PROVE RemindersInv'
    BY <1>2, <2>3, NextCatalogInv
  <2>. QED  BY <2>2, <2>3
<1>4. RemindersInv => ReminderHasOffer
  OBVIOUS
<1>. HIDE DEF RemindersInv
<1>. QED  BY <1>1, <1>3, <1>4, PTL DEF Spec

----------------------------------------------------------------------------
(* The loop over an answer.  It is a recursive function, of which two      *)
(* facts are needed: it exists, and what its step keeps holds at its end.  *)
(* Both follow from the least number for which they would fail.            *)

Applies(after, base, answer) ==
  /\ after[0] = base
  /\ \A n \in 1 .. Len(answer) : after[n] = ApplyOffer(after[n - 1], answer[n])
  /\ ApplyAnswer(base, answer) = after[Len(answer)]

LEMMA LoopDefined ==
  ASSUME NEW base, NEW answer, Len(answer) \in Nat
  PROVE  \E after : Applies(after, base, answer)
<1>. DEFINE Body(f, n) == IF n = 0 THEN base ELSE ApplyOffer(f[n - 1], answer[n])
            Defined(m) == \E f : f = [n \in 0 .. m |-> Body(f, n)]
            T == {m \in Nat : ~Defined(m)}
<1>1. \A m \in Nat : Defined(m)
  <2>. SUFFICES ASSUME T # {} PROVE FALSE
    OBVIOUS
  <2>1. PICK m \in T : \A k \in T : m <= k
    <3>. HIDE DEF T
    <3>. T \in SUBSET Nat
      BY DEF T
    <3>. QED  BY SetHasLeast
  <2>2. m # 0
    <3>. DEFINE f == [n \in 0 .. 0 |-> base]
    <3>1. f = [n \in 0 .. 0 |-> Body(f, n)]
      OBVIOUS
    <3>2. Defined(0)
      BY <3>1
    <3>. QED  BY <2>1, <3>2
  <2>3. m - 1 \in Nat /\ m - 1 \notin T
    <3>1. m \in Nat
      BY <2>1
    <3>2. m - 1 \in Nat /\ ~(m <= m - 1)
      BY <2>2, <3>1
    <3>. HIDE DEF T
    <3>. QED  BY <2>1, <3>2
  <2>4. PICK g : g = [n \in 0 .. m - 1 |-> Body(g, n)]
    BY <2>3
  <2>. DEFINE h == [n \in 0 .. m |-> IF n = m THEN ApplyOffer(g[m - 1], answer[m]) ELSE g[n]]
  <2>5. ASSUME NEW n \in 0 .. m PROVE h[n] = Body(h, n)
    <3>1. CASE n = m
      <4>1. m - 1 \in 0 .. m /\ m - 1 # m
        BY <2>3
      <4>. QED  BY <2>2, <3>1, <4>1
    <3>2. CASE n # m /\ n = 0
      <4>1. 0 \in 0 .. m - 1
        BY <2>3
      <4>2. g[0] = base
        BY <2>4, <4>1
      <4>. QED  BY <3>2, <4>2
    <3>3. CASE n # m /\ n # 0
      <4>1. n \in 0 .. m - 1 /\ n - 1 \in 0 .. m /\ n - 1 # m
        BY <2>3, <3>3
      <4>2. g[n] = ApplyOffer(g[n - 1], answer[n])
        BY <2>4, <3>3, <4>1
      <4>. QED  BY <3>3, <4>1, <4>2
    <3>. QED  BY <3>1, <3>2, <3>3
  <2>6. h = [n \in 0 .. m |-> Body(h, n)]
    BY <2>5
  <2>7. Defined(m)
    BY <2>6
  <2>. QED  BY <2>1, <2>7
<1>. DEFINE after == CHOOSE f : f = [n \in 0 .. Len(answer) |-> Body(f, n)]
<1>2. after = [n \in 0 .. Len(answer) |-> Body(after, n)]
  BY <1>1
<1>3. ApplyAnswer(base, answer) = after[Len(answer)]
  BY DEF ApplyAnswer
<1>. HIDE DEF after
<1>4. after[0] = base
  BY <1>2
<1>5. \A n \in 1 .. Len(answer) : after[n] = ApplyOffer(after[n - 1], answer[n])
  BY <1>2
<1>6. Applies(after, base, answer)
  BY <1>3, <1>4, <1>5 DEF Applies
<1>. QED  BY <1>6

(* What an extraction knows after it has applied n offers.  The maps lead  *)
(* to rows that are there, ids beyond the last are unused, nothing goes.   *)
RowFacts == [title : Titles, type : Types]

LeadsToRows(map, Keys, rows) ==
  /\ map \in [Keys -> Ids \cup {NoId}]
  /\ \A k \in Keys : map[k] # NoId => rows[map[k]] # NoRow

Grown(base, acc, n) ==
  /\ acc.rows \in [Ids -> RowFacts \cup {NoRow}]
  /\ LeadsToRows(acc.byTitle, Titles, acc.rows)
  /\ LeadsToRows(acc.byType, Types, acc.rows)
  /\ acc.lastId \in base.lastId .. base.lastId + n
  /\ \A i \in Ids : i > acc.lastId => acc.rows[i] = NoRow
  /\ \A i \in Ids : base.rows[i] # NoRow => acc.rows[i] # NoRow

(* A row whose title is not the default one is the row its title leads to. *)
Findable(acc) ==
  \A i \in Ids :
    acc.rows[i] # NoRow /\ NameOf(acc.rows[i]) # Name[Default] => acc.byTitle[NameOf(acc.rows[i])] = i

LEMMA FactsAreNoRow == NoRow \notin RowFacts
<1>1. NoRow.title = Absent /\ Absent \notin Titles
  BY TrialAssumption DEF NoRow
<1>. QED  BY <1>1 DEF RowFacts

LEMMA ApplyOfferKeeps ==
  ASSUME NEW base, base.lastId \in Nat, NEW acc, NEW n \in Nat, Grown(base, acc, n),
         base.lastId + n < MaxId, NEW eo \in [title : Titles \cup {Untitled}, type : Types]
  PROVE  /\ Grown(base, ApplyOffer(acc, eo), n + 1)
         /\ Findable(acc) => Findable(ApplyOffer(acc, eo))
<1>. DEFINE known == Match(acc, eo) # NoId
            i == IF known THEN Match(acc, eo) ELSE acc.lastId + 1
            row == IF known THEN acc.rows[i] ELSE NewOffer(eo)
            title == IF eo.title = Untitled THEN row.title ELSE eo.title
            new == [title |-> title, type |-> eo.type]
            rows == [acc.rows EXCEPT ![i] = new]
            byTitle == IF eo.title = Untitled THEN acc.byTitle
                       ELSE [acc.byTitle EXCEPT ![Name[eo.title]] = i]
            byType == IF known THEN acc.byType ELSE [acc.byType EXCEPT ![eo.type] = i]
            last == IF known THEN acc.lastId ELSE i
<1>1. ApplyOffer(acc, eo) = [rows |-> rows, byTitle |-> byTitle, byType |-> byType, lastId |-> last]
  BY DEF ApplyOffer
<1>2. /\ eo.type \in Types
      /\ eo.title # Untitled => eo.title \in Titles /\ Name[eo.title] \in Titles
      /\ Default \in Titles /\ Untitled \notin Titles
  BY TrialAssumption
<1>3. MaxId \in Nat /\ acc.lastId \in Nat /\ acc.lastId + 1 <= MaxId
  BY TrialAssumption DEF Grown
<1>4. Match(acc, eo) \in Ids \cup {NoId} /\ (Match(acc, eo) # NoId => acc.rows[Match(acc, eo)] # NoRow)
  BY <1>2 DEF Match, Grown, LeadsToRows
<1>5. i \in Ids
  BY <1>3, <1>4 DEF Ids
<1>6. row \in RowFacts
  <2>1. CASE known
    BY <1>4, <1>5, <2>1 DEF Grown
  <2>2. CASE ~known
    BY <1>2, <2>2 DEF NewOffer, RowFacts
  <2>. QED  BY <2>1, <2>2
<1>7. new \in RowFacts
  BY <1>2, <1>6 DEF RowFacts
<1>8. ~known => acc.rows[i] = NoRow
  BY <1>3, <1>5 DEF Grown
<1>9. known => i <= acc.lastId
  <2>1. known => acc.rows[i] # NoRow
    BY <1>4
  <2>. QED  BY <1>3, <1>5, <2>1 DEF Grown, Ids
<1>10. new.title = title
  OBVIOUS
<1>. DEFINE K == known
<1>11. (K => last = acc.lastId) /\ (~K => last = acc.lastId + 1 /\ i = acc.lastId + 1)
  OBVIOUS
<1>12. /\ acc.rows \in [Ids -> RowFacts \cup {NoRow}]
       /\ acc.byTitle \in [Titles -> Ids \cup {NoId}] /\ acc.byType \in [Types -> Ids \cup {NoId}]
  BY DEF Grown, LeadsToRows
<1>13. /\ eo.title = Untitled => byTitle = acc.byTitle
       /\ eo.title # Untitled => byTitle = [acc.byTitle EXCEPT ![Name[eo.title]] = i]
       /\ byType = acc.byType \/ byType = [acc.byType EXCEPT ![eo.type] = i]
  OBVIOUS
<1>14. /\ eo.title # Untitled => title = eo.title
       /\ eo.title = Untitled /\ ~K => title = Default
       /\ eo.title = Untitled /\ K => title = acc.rows[i].title
  BY DEF NewOffer
<1>15. eo.title # Untitled /\ acc.byTitle[Name[eo.title]] # NoId => i = acc.byTitle[Name[eo.title]]
  BY DEF Match
<1>. HIDE DEF K, last, i, title, new, byTitle, byType, row
<1>16. /\ rows \in [Ids -> RowFacts \cup {NoRow}]
       /\ rows[i] = new /\ new # NoRow
       /\ \A j \in Ids : j # i => rows[j] = acc.rows[j]
  BY <1>5, <1>7, <1>12, FactsAreNoRow
<1>. HIDE DEF rows
<1>17. \A j \in Ids : acc.rows[j] # NoRow => rows[j] # NoRow
  BY <1>16
<1>18. LeadsToRows(byTitle, Titles, rows)
  BY <1>2, <1>5, <1>12, <1>13, <1>16, <1>17 DEF Grown, LeadsToRows, NoId, Ids
<1>19. LeadsToRows(byType, Types, rows)
  BY <1>2, <1>5, <1>12, <1>13, <1>16, <1>17 DEF Grown, LeadsToRows, NoId, Ids
<1>20. last \in base.lastId .. base.lastId + (n + 1)
  BY <1>3, <1>11 DEF Grown
<1>21. \A j \in Ids : j > last => rows[j] = NoRow
  BY <1>3, <1>9, <1>11, <1>16 DEF Grown, Ids, K
<1>22. \A j \in Ids : base.rows[j] # NoRow => rows[j] # NoRow
  BY <1>17 DEF Grown
<1>. DEFINE result == [rows |-> rows, byTitle |-> byTitle, byType |-> byType, lastId |-> last]
<1>23. /\ result.rows = rows /\ result.byTitle = byTitle
       /\ result.byType = byType /\ result.lastId = last
  OBVIOUS
<1>24. ApplyOffer(acc, eo) = result
  BY <1>1
<1>. HIDE DEF result
<1>25. Grown(base, result, n + 1)
  BY <1>16, <1>18, <1>19, <1>20, <1>21, <1>22, <1>23 DEF Grown
<1>26. ASSUME Findable(acc) PROVE Findable(result)
  <2>. SUFFICES ASSUME NEW j \in Ids, rows[j] # NoRow, NameOf(rows[j]) # Name[Default]
                PROVE  byTitle[NameOf(rows[j])] = j
    BY <1>23 DEF Findable
  <2>1. CASE j # i
    <3>1. /\ acc.rows[j] # NoRow /\ rows[j] = acc.rows[j]
          /\ acc.byTitle[NameOf(rows[j])] = j
      BY <1>16, <1>26, <2>1 DEF Findable
    <3>2. NameOf(rows[j]) = Name[eo.title] /\ eo.title # Untitled => i = j
      BY <1>15, <3>1 DEF NoId, Ids
    <3>3. NameOf(rows[j]) \in Titles
      BY <1>12, <3>1, TrialAssumption DEF NameOf, RowFacts
    <3>. QED  BY <1>12, <1>13, <2>1, <3>1, <3>2, <3>3
  <2>2. CASE j = i
    <3>1. NameOf(rows[j]) = Name[title]
      BY <1>10, <1>16, <2>2 DEF NameOf
    <3>2. CASE eo.title # Untitled
      BY <1>2, <1>12, <1>13, <1>14, <2>2, <3>1, <3>2
    <3>3. CASE eo.title = Untitled
      <4>1. K /\ title = acc.rows[i].title
        BY <1>14, <3>1, <3>3
      <4>2. acc.rows[i] # NoRow
        BY <1>4, <4>1 DEF K, i
      <4>. QED  BY <1>5, <1>13, <1>26, <2>2, <3>1, <3>3, <4>1, <4>2 DEF Findable, NameOf
    <3>. QED  BY <3>2, <3>3
  <2>. QED  BY <2>1, <2>2
<1>. QED  BY <1>24, <1>25, <1>26

LEMMA AnswerKeeps ==
  ASSUME NEW base, base.lastId \in Nat, Grown(base, base, 0),
         NEW answer \in Answers, base.lastId + Len(answer) <= MaxId
  PROVE  /\ Grown(base, ApplyAnswer(base, answer), Len(answer))
         /\ Findable(base) => Findable(ApplyAnswer(base, answer))
<1>1. answer \in Seq([title : Titles \cup {Untitled}, type : Types])
  BY TrialAssumption
<1>2. Len(answer) \in Nat /\ MaxId \in Nat
  BY <1>1, TrialAssumption
<1>3. PICK after : Applies(after, base, answer)
  BY <1>2, LoopDefined
<1>. DEFINE Holds(n) == Grown(base, after[n], n) /\ (Findable(base) => Findable(after[n]))
            T == {n \in Nat : n <= Len(answer) /\ ~Holds(n)}
<1>4. T = {}
  <2>. SUFFICES ASSUME T # {} PROVE FALSE
    OBVIOUS
  <2>1. PICK n \in T : \A k \in T : n <= k
    <3>. T \in SUBSET Nat
      OBVIOUS
    <3>. HIDE DEF T
    <3>. QED  BY SetHasLeast
  <2>2. n # 0
    BY <1>3, <2>1 DEF Applies
  <2>3. n - 1 \in Nat /\ n - 1 <= Len(answer) /\ n \in 1 .. Len(answer) /\ Holds(n - 1)
    BY <1>2, <2>1, <2>2
  <2>4. after[n] = ApplyOffer(after[n - 1], answer[n])
    BY <1>3, <2>3 DEF Applies
  <2>5. answer[n] \in [title : Titles \cup {Untitled}, type : Types]
    <3>. DEFINE Offers == [title : Titles \cup {Untitled}, type : Types]
    <3>1. answer \in Seq(Offers) /\ n \in 1 .. Len(answer)
      BY <1>1, <2>3
    <3>. HIDE DEF Offers
    <3>2. answer[n] \in Offers
      BY <3>1
    <3>. QED  BY <3>2 DEF Offers
  <2>6. base.lastId + (n - 1) < MaxId /\ (n - 1) + 1 = n
    BY <1>2, <2>3
  <2>7. /\ Grown(base, ApplyOffer(after[n - 1], answer[n]), (n - 1) + 1)
        /\ Findable(after[n - 1]) => Findable(ApplyOffer(after[n - 1], answer[n]))
    BY <2>3, <2>5, <2>6, ApplyOfferKeeps
  <2>8. Holds(n)
    BY <2>3, <2>4, <2>6, <2>7
  <2>. QED  BY <2>1, <2>8
<1>5. Holds(Len(answer))
  BY <1>2, <1>4
<1>. QED  BY <1>3, <1>5 DEF Applies

----------------------------------------------------------------------------
(* Types.                                                                  *)

Copy ==
  [task : {"none", "extract", "sweep", "single"}, page : 0 .. MaxPages,
   rows : [Ids -> RowFacts \cup {NoRow}], status : UNION {[taken -> Status] : taken \in SUBSET Ids}]

CatalogTypes ==
  /\ offers \in [Ids -> Row \cup {NoRow}]
  /\ lastId \in 0 .. MaxId
  /\ \A i \in Ids : i > lastId => offers[i] = NoRow
  /\ reminder \in [Reminders -> Ids \cup {NoId, Unset}]
  /\ page \in 1 .. MaxPages
  /\ session \in [Sessions -> Copy]
  /\ verdict \in [Ids -> Status \cup {"none"}]
  /\ now \in 1 .. MaxTime
  /\ seeds \in 0 .. MaxSeeds

LEMMA BoundsAreNat ==
  /\ MaxId \in Nat /\ MaxSeeds \in Nat
  /\ MaxTime \in Nat \ {0} /\ MaxPages \in Nat \ {0}
  BY TrialAssumption

LEMMA RowIsRow ==
  ASSUME NEW row \in Row \cup {NoRow}, row # NoRow
  PROVE  IsRow(row) /\ row \in Row
<1>1. row \in Row
  OBVIOUS
<1>2. 0 .. MaxTime \subseteq Times
  BY BoundsAreNat DEF Times
<1>3. row \in RowOf(Titles, Types, 0 .. MaxPages, Status)
  BY <1>1, <1>2 DEF Row, RowOf
<1>. QED  BY <1>1, <1>3 DEF IsRow

LEMMA RowIsListed == NoRow \notin Row
<1>1. NoRow.title = Absent /\ Absent \notin Titles
  BY TrialAssumption DEF NoRow
<1>. QED  BY <1>1 DEF Row

LEMMA IdleIsCopy == Idle \in Copy
<1>1. [i \in {} |-> "none"] \in [{} -> Status]
  OBVIOUS
<1>2. [i \in {} |-> "none"] \in UNION {[taken -> Status] : taken \in SUBSET Ids}
  BY <1>1
<1>3. [i \in Ids |-> NoRow] \in [Ids -> RowFacts \cup {NoRow}]
  OBVIOUS
<1>4. 0 \in 0 .. MaxPages
  BY BoundsAreNat
<1>. HIDE DEF RowFacts
<1>. QED  BY <1>2, <1>3, <1>4 DEF Idle, Copy

LEMMA CatalogTypesInit == Init => CatalogTypes
<1>. SUFFICES ASSUME Init PROVE CatalogTypes
  OBVIOUS
<1>1. lastId \in 0 .. MaxId /\ seeds \in 0 .. MaxSeeds /\ now \in 1 .. MaxTime /\ page \in 1 .. MaxPages
  BY BoundsAreNat DEF Init
<1>2. offers = [i \in Ids |-> NoRow]
  BY DEF Init
<1>3. offers \in [Ids -> Row \cup {NoRow}] /\ \A i \in Ids : i > lastId => offers[i] = NoRow
  BY <1>2
<1>4. reminder \in [Reminders -> Ids \cup {NoId, Unset}] /\ verdict \in [Ids -> Status \cup {"none"}]
  BY DEF Init
<1>5. session \in [Sessions -> Copy]
  BY IdleIsCopy DEF Init
<1>. QED  BY <1>1, <1>3, <1>4, <1>5 DEF CatalogTypes

(* The flush of a typed row.                                               *)
LEMMA FlushIsRow ==
  ASSUME NEW db \in Row \cup {NoRow}, NEW loaded \in RowFacts \cup {NoRow},
         NEW new \in RowFacts \cup {NoRow}, NEW hash \in 0 .. MaxPages,
         loaded # NoRow => db # NoRow
  PROVE  /\ FlushFacts(db, loaded, new, hash) \in Row \cup {NoRow}
         /\ new # NoRow => FlushFacts(db, loaded, new, hash) # NoRow
<1>. DEFINE row == FlushFacts(db, loaded, new, hash)
<1>1. CASE new = NoRow
  BY <1>1 DEF FlushFacts
<1>2. CASE new # NoRow /\ loaded = NoRow
  <2>1. row = [title |-> new.title, type |-> new.type, hash |-> hash,
               status |-> "unverified", verifiedAt |-> Never]
    BY <1>2 DEF FlushFacts
  <2>2. new.title \in Titles /\ new.type \in Types /\ Never \in 0 .. MaxTime /\ "unverified" \in Status
    BY <1>2, BoundsAreNat DEF RowFacts, Never, Status
  <2>3. row \in Row
    BY <2>1, <2>2 DEF Row
  <2>. QED  BY <2>3, RowIsListed
<1>3. CASE new # NoRow /\ loaded # NoRow
  <2>. DEFINE a == Column(db.title, loaded.title, new.title)
              b == Column(db.type, loaded.type, new.type)
  <2>1. row = [db EXCEPT !.title = a, !.type = b, !.hash = hash]
    BY <1>3 DEF FlushFacts
  <2>2. db \in Row
    BY <1>3
  <2>3. a \in Titles /\ b \in Types
    BY <1>3, <2>2 DEF Column, Row, RowFacts
  <2>. HIDE DEF a, b, row
  <2>4. row \in Row
    BY <2>1, <2>2, <2>3 DEF Row
  <2>. QED  BY <2>4, RowIsListed DEF row
<1>. QED  BY <1>1, <1>2, <1>3

(* What an extraction holds when it starts to apply an answer.             *)
Base(e, byTitle, byType) ==
  [rows |-> session[e].rows, byTitle |-> byTitle, byType |-> byType, lastId |-> lastId]

LEMMA FirstsLead ==
  ASSUME NEW rows \in [Ids -> RowFacts \cup {NoRow}], NEW Keys, NEW keyOf,
         DOMAIN keyOf = Listed(rows), NEW map \in Firsts(keyOf, Keys)
  PROVE  LeadsToRows(map, Keys, rows)
<1>1. /\ map \in [Keys -> Listed(rows) \cup {NoId}]
      /\ \A k \in Keys : map[k] = NoId \/ map[k] \in Listed(rows)
  BY DEF Firsts
<1>. QED  BY <1>1 DEF Listed, LeadsToRows

LEMMA ExtractionApplies ==
  ASSUME CatalogTypes, NEW e \in Extractors, NEW answer \in Answers, CommitExtraction(e, answer)
  PROVE  \E byTitle \in Firsts([i \in Listed(session[e].rows) |-> NameOf(session[e].rows[i])], Titles),
            byType \in Firsts([i \in Listed(session[e].rows) |-> session[e].rows[i].type], Types) :
           LET base == Base(e, byTitle, byType)
               after == ApplyAnswer(base, answer)
           IN /\ offers' = [i \in Ids |->
                   FlushFacts(offers[i], session[e].rows[i], after.rows[i], session[e].page)]
              /\ lastId' = after.lastId
              /\ Grown(base, after, Len(answer))
              /\ Findable(base) => Findable(after)
<1>. DEFINE loaded == session[e].rows
<1>1. PICK byTitle \in Firsts([i \in Listed(loaded) |-> NameOf(loaded[i])], Titles),
           byType \in Firsts([i \in Listed(loaded) |-> loaded[i].type], Types) :
             LET after == ApplyAnswer(Base(e, byTitle, byType), answer)
             IN /\ offers' = [i \in Ids |->
                     FlushFacts(offers[i], loaded[i], after.rows[i], session[e].page)]
                /\ lastId' = after.lastId
  BY DEF CommitExtraction, Base
<1>2. loaded \in [Ids -> RowFacts \cup {NoRow}]
  BY DEF CatalogTypes, Copy, Sessions
<1>3. \A i \in Ids : loaded[i] # NoRow => offers[i] # NoRow
  BY DEF CommitExtraction, NoneDeleted, Listed
<1>4. lastId \in Nat /\ lastId + Len(answer) <= MaxId
  BY BoundsAreNat DEF CommitExtraction, CatalogTypes
<1>. HIDE DEF loaded
<1>5. LeadsToRows(byTitle, Titles, loaded) /\ LeadsToRows(byType, Types, loaded)
  BY <1>2, FirstsLead
<1>. DEFINE base == Base(e, byTitle, byType)
<1>6. /\ base.rows = loaded /\ base.byTitle = byTitle /\ base.byType = byType /\ base.lastId = lastId
  BY DEF Base, loaded
<1>. HIDE DEF base
<1>7. \A i \in Ids : i > lastId => loaded[i] = NoRow
  BY <1>3 DEF CatalogTypes
<1>8. Grown(base, base, 0)
  BY <1>2, <1>4, <1>5, <1>6, <1>7 DEF Grown
<1>9. /\ Grown(base, ApplyAnswer(base, answer), Len(answer))
      /\ Findable(base) => Findable(ApplyAnswer(base, answer))
  BY <1>4, <1>6, <1>8, AnswerKeeps
<1>. QED  BY <1>1, <1>9 DEF base, loaded

(* Curated rows: as many as the seeding finds no offer for.                *)
LEMMA SeqOfSet ==
  ASSUME NEW S, IsFiniteSet(S)
  PROVE  Cardinality(S) \in Nat /\ SetToSeq(S) \in [1 .. Cardinality(S) -> S] /\ Len(SetToSeq(S)) = Cardinality(S)
<1>1. Cardinality(S) \in Nat /\ ExistsBijection(1 .. Cardinality(S), S)
  BY FS_CardinalityType
<1>2. \E f \in [1 .. Cardinality(S) -> S] : IsInjective(f)
  BY <1>1 DEF ExistsBijection, Bijection, Injection
<1>3. SetToSeq(S) \in [1 .. Cardinality(S) -> S]
  BY <1>2 DEF SetToSeq
<1>. QED  BY <1>1, <1>3

LEMMA UpsertedAreRows ==
  ASSUME CatalogTypes, lastId + Cardinality(Curated) <= MaxId,
         NEW rows \in [Ids -> Row \cup {NoRow}], \A i \in Ids : i > lastId => rows[i] = NoRow,
         NEW next, next = lastId + Cardinality({c \in Curated : Titled(rows, c.title) = {}})
  PROVE  /\ Upserted(rows) \in [Ids -> Row \cup {NoRow}]
         /\ next \in lastId .. MaxId
         /\ \A i \in Ids : i > next => Upserted(rows)[i] = NoRow
<1>. DEFINE new == {c \in Curated : Titled(rows, c.title) = {}}
            missing == SetToSeq(new)
            known == {c \in Curated : Titled(rows, c.title) # {}}
            Pick(i) == CHOOSE c \in known : i \in Titled(rows, c.title)
            Value(i) == IF i > lastId /\ i <= lastId + Len(missing) THEN NewCurated(missing[i - lastId])
                        ELSE IF \E c \in known : i \in Titled(rows, c.title)
                        THEN CuratedRow(rows[i], Pick(i)) ELSE rows[i]
<1>1. Upserted(rows) = [i \in Ids |-> Value(i)]
  BY DEF Upserted
<1>2. /\ Cardinality(new) \in Nat /\ Cardinality(new) <= Cardinality(Curated)
      /\ Cardinality(Curated) \in Nat
      /\ missing \in [1 .. Cardinality(new) -> new] /\ Len(missing) = Cardinality(new)
  <2>1. IsFiniteSet(Curated) /\ new \in SUBSET Curated
    BY TrialAssumption
  <2>. HIDE DEF new
  <2>2. IsFiniteSet(new) /\ Cardinality(new) <= Cardinality(Curated)
    BY <2>1, FS_Subset
  <2>. QED  BY <2>1, <2>2, SeqOfSet, FS_CardinalityType
<1>3. ASSUME NEW c \in Curated
      PROVE  NewCurated(c) \in Row
  <2>1. c \in [title : Titles, type : Types]
    BY TrialAssumption
  <2>2. 0 \in 0 .. MaxPages /\ Never \in 0 .. MaxTime /\ "unverified" \in Status
    BY BoundsAreNat DEF Never, Status
  <2>. QED  BY <2>1, <2>2 DEF NewCurated, Row
<1>4. ASSUME NEW i \in Ids, NEW c \in Curated, rows[i] # NoRow
      PROVE  CuratedRow(rows[i], c) \in Row
  <2>1. rows[i] \in Row
    BY <1>4
  <2>2. c.type \in Types /\ "unverified" \in Status
    BY TrialAssumption DEF Status
  <2>3. CuratedRow(rows[i], c) = [rows[i] EXCEPT !.type = c.type, !.status = "unverified"]
    BY DEF CuratedRow
  <2>. QED  BY <2>1, <2>2, <2>3 DEF Row
<1>5. \A i \in Ids, c \in known : i \in Titled(rows, c.title) => rows[i] # NoRow
  BY DEF Titled, Listed
<1>6. next = lastId + Len(missing) /\ lastId \in Nat /\ next \in lastId .. MaxId
  <2>1. lastId \in Nat /\ MaxId \in Nat
    BY BoundsAreNat DEF CatalogTypes
  <2>2. next = lastId + Cardinality(new) /\ Cardinality(new) = Len(missing)
    BY <1>2
  <2>. HIDE DEF new, missing
  <2>. QED  BY <1>2, <2>1, <2>2
<1>7. \A i \in Ids : i \in Int
  BY DEF Ids
<1>8. \A c \in new : c \in Curated
  OBVIOUS
<1>9. known \subseteq Curated
  OBVIOUS
<1>. HIDE DEF new, missing, known
<1>10. \A i \in Ids : (\E c \in known : i \in Titled(rows, c.title)) => Pick(i) \in known /\ i \in Titled(rows, Pick(i).title)
  OBVIOUS
<1>. HIDE DEF Pick
<1>11. ASSUME NEW i \in Ids
       PROVE  Value(i) \in Row \cup {NoRow} /\ (i > next => Value(i) = NoRow)
  <2>1. CASE i > lastId /\ i <= lastId + Len(missing)
    <3>1. i - lastId \in 1 .. Cardinality(new)
      BY <1>2, <1>6, <1>7, <2>1
    <3>2. missing[i - lastId] \in Curated
      BY <1>2, <1>8, <3>1
    <3>. QED  BY <1>3, <1>6, <2>1, <3>2, <1>7
  <2>2. CASE ~(i > lastId /\ i <= lastId + Len(missing)) /\ \E c \in known : i \in Titled(rows, c.title)
    <3>1. Pick(i) \in Curated /\ rows[i] # NoRow
      BY <1>5, <1>9, <1>10, <2>2
    <3>2. Value(i) = CuratedRow(rows[i], Pick(i)) /\ Value(i) \in Row
      BY <1>4, <2>2, <3>1
    <3>3. ~(i > lastId)
      BY <3>1
    <3>. QED  BY <1>6, <1>7, <3>2, <3>3
  <2>3. CASE ~(i > lastId /\ i <= lastId + Len(missing)) /\ ~\E c \in known : i \in Titled(rows, c.title)
    <3>1. Value(i) = rows[i]
      BY <2>3
    <3>2. i > next => i > lastId
      BY <1>6, <1>7
    <3>. QED  BY <3>1, <3>2
  <2>. QED  BY <2>1, <2>2, <2>3
<1>. HIDE DEF Value
<1>. QED  BY <1>1, <1>6, <1>11

LEMMA SeedTypes ==
  ASSUME CatalogTypes, Seed
  PROVE  CatalogTypes'
<1>1. PICK gone \in SUBSET Listed(offers) :
        LET kept == Without(offers, gone)
            cut == [r \in Reminders |-> IF reminder[r] \in gone THEN NoId ELSE reminder[r]]
            deduped == Without(kept, Duplicates(kept))
        IN  /\ reminder' = Moved(kept, cut)
            /\ offers' = Upserted(deduped)
            /\ lastId' = lastId + Cardinality({c \in Curated : Titled(deduped, c.title) = {}})
            /\ verdict' = [i \in Ids |-> IF deduped[i] = NoRow THEN "none" ELSE verdict[i]]
  BY DEF Seed, Retirements
<1>. DEFINE kept == Without(offers, gone)
            cut == [r \in Reminders |-> IF reminder[r] \in gone THEN NoId ELSE reminder[r]]
            deduped == Without(kept, Duplicates(kept))
<1>2. /\ reminder' = Moved(kept, cut)
      /\ offers' = Upserted(deduped)
      /\ lastId' = lastId + Cardinality({c \in Curated : Titled(deduped, c.title) = {}})
      /\ verdict' = [i \in Ids |-> IF deduped[i] = NoRow THEN "none" ELSE verdict[i]]
  BY <1>1
<1>3. kept \in [Ids -> Row \cup {NoRow}] /\ \A i \in Ids : i > lastId => kept[i] = NoRow
  BY DEF CatalogTypes, Without
<1>4. \A r \in Reminders : cut[r] \in Ids \cup {NoId, Unset}
  BY DEF CatalogTypes
<1>. HIDE DEF kept, cut
<1>5. deduped \in [Ids -> Row \cup {NoRow}] /\ \A i \in Ids : i > lastId => deduped[i] = NoRow
  BY <1>3 DEF Without
<1>. HIDE DEF deduped
<1>6. lastId + Cardinality(Curated) <= MaxId
  BY DEF Seed
<1>7. /\ offers' \in [Ids -> Row \cup {NoRow}]
      /\ lastId' \in lastId .. MaxId
      /\ \A i \in Ids : i > lastId' => offers'[i] = NoRow
  BY <1>2, <1>5, <1>6, UpsertedAreRows
<1>8. lastId' \in 0 .. MaxId
  BY <1>7, BoundsAreNat DEF CatalogTypes
<1>9. \A i \in Ids : kept[i] = NoRow \/ IsRow(kept[i])
  BY <1>3, RowIsRow
<1>10. reminder' \in [Reminders -> Ids \cup {NoId, Unset}]
  <2>1. ASSUME NEW r \in Reminders
        PROVE  (IF cut[r] \in Duplicates(kept) THEN Kept(kept, cut[r]) ELSE cut[r]) \in Ids \cup {NoId, Unset}
    <3>1. CASE cut[r] \in Duplicates(kept)
      <4>1. cut[r] \in Listed(kept)
        BY <3>1 DEF Duplicates
      <4>2. Kept(kept, cut[r]) \in Listed(kept)
        BY <1>9, <4>1, KeptIsKept
      <4>. QED  BY <3>1, <4>2 DEF Listed
    <3>. QED  BY <1>4, <3>1
  <2>. QED  BY <1>2, <2>1 DEF Moved
<1>11. verdict' \in [Ids -> Status \cup {"none"}]
  BY <1>2 DEF CatalogTypes
<1>12. seeds' \in 0 .. MaxSeeds
  BY BoundsAreNat DEF Seed, CatalogTypes
<1>13. UNCHANGED <<page, session, now>>
  BY DEF Seed
<1>. QED  BY <1>7, <1>8, <1>10, <1>11, <1>12, <1>13 DEF CatalogTypes

LEMMA ExtractionTypes ==
  ASSUME CatalogTypes, NEW e \in Extractors, NEW answer \in Answers, CommitExtraction(e, answer)
  PROVE  CatalogTypes' /\ \A i \in Ids : offers[i] # NoRow => offers'[i] # NoRow
<1>. DEFINE loaded == session[e].rows
<1>1. PICK base, after :
        /\ offers' = [i \in Ids |-> FlushFacts(offers[i], loaded[i], after.rows[i], session[e].page)]
        /\ lastId' = after.lastId
        /\ base.lastId = lastId
        /\ Grown(base, after, Len(answer))
  BY ExtractionApplies DEF Base
<1>2. e \in Sessions
  BY DEF Sessions
<1>3. loaded \in [Ids -> RowFacts \cup {NoRow}] /\ session[e].page \in 0 .. MaxPages
  BY <1>2 DEF CatalogTypes, Copy
<1>4. \A i \in Ids : loaded[i] # NoRow => offers[i] # NoRow
  BY DEF CommitExtraction, NoneDeleted, Listed
<1>5. answer \in Seq([title : Titles \cup {Untitled}, type : Types])
  BY TrialAssumption
<1>6. lastId + Len(answer) <= MaxId /\ Len(answer) \in Nat /\ lastId \in Nat
  BY <1>5 DEF CommitExtraction, CatalogTypes
<1>7. lastId' \in 0 .. MaxId /\ lastId' >= lastId
  BY <1>1, <1>6, BoundsAreNat DEF Grown
<1>. DEFINE hash == session[e].page
<1>8. hash \in 0 .. MaxPages
  BY <1>3
<1>. HIDE DEF loaded, hash
<1>9. ASSUME NEW i \in Ids
      PROVE  /\ offers'[i] \in Row \cup {NoRow}
             /\ i > lastId' => offers'[i] = NoRow
             /\ offers[i] # NoRow => offers'[i] # NoRow
  <2>1. offers'[i] = FlushFacts(offers[i], loaded[i], after.rows[i], hash)
    BY <1>1 DEF hash
  <2>2. /\ offers[i] \in Row \cup {NoRow} /\ loaded[i] \in RowFacts \cup {NoRow}
        /\ after.rows[i] \in RowFacts \cup {NoRow}
    BY <1>1, <1>3 DEF CatalogTypes, Grown
  <2>3. offers'[i] \in Row \cup {NoRow} /\ (after.rows[i] # NoRow => offers'[i] # NoRow)
    <3>. DEFINE db == offers[i]
                was == loaded[i]
                new == after.rows[i]
    <3>1. /\ db \in Row \cup {NoRow} /\ was \in RowFacts \cup {NoRow} /\ new \in RowFacts \cup {NoRow}
          /\ was # NoRow => db # NoRow
      BY <1>4, <2>2
    <3>2. offers'[i] = FlushFacts(db, was, new, hash)
      BY <2>1
    <3>. HIDE DEF db, was, new
    <3>3. /\ FlushFacts(db, was, new, hash) \in Row \cup {NoRow}
          /\ new # NoRow => FlushFacts(db, was, new, hash) # NoRow
      BY <1>8, <3>1, FlushIsRow
    <3>. QED  BY <3>2, <3>3 DEF new
  <2>4. i > lastId' => after.rows[i] = NoRow /\ offers[i] = NoRow
    BY <1>1, <1>6, <1>7 DEF Grown, CatalogTypes, Ids
  <2>5. after.rows[i] = NoRow => offers'[i] = offers[i]
    BY <2>1 DEF FlushFacts
  <2>. QED  BY <2>3, <2>4, <2>5
<1>10. offers' \in [Ids -> Row \cup {NoRow}]
  BY <1>1, <1>9
<1>11. session' \in [Sessions -> Copy]
  BY <1>2, IdleIsCopy DEF CommitExtraction, CatalogTypes
<1>12. UNCHANGED <<reminder, page, verdict, now, seeds>>
  BY DEF CommitExtraction
<1>. QED  BY <1>7, <1>9, <1>10, <1>11, <1>12 DEF CatalogTypes

LEMMA VerificationTypes ==
  ASSUME CatalogTypes, NEW v \in Verifiers, NEW outcome, CommitVerification(v, outcome)
  PROVE  CatalogTypes'
<1>. DEFINE loaded == session[v].status
            taken == DOMAIN loaded
<1>1. /\ offers' = [i \in Ids |-> IF i \in taken
           THEN RecordVerification(offers[i], loaded[i], outcome[i]) ELSE offers[i]]
      /\ verdict' = [i \in Ids |-> IF i \in taken THEN NewStatus(outcome[i]) ELSE verdict[i]]
      /\ session' = [session EXCEPT ![v] = Idle]
      /\ UNCHANGED <<lastId, reminder, page, now, seeds>>
      /\ \A i \in taken : i \in Ids /\ offers[i] # NoRow
  BY DEF CommitVerification, NoneDeleted, Listed
<1>2. v \in Sessions
  BY DEF Sessions
<1>3. \A o : NewStatus(o) \in Status
  BY DEF NewStatus, StatusFor, Status
<1>4. ASSUME NEW i \in taken
      PROVE  offers'[i] \in Row
  <2>. DEFINE status == Column(offers[i].status, loaded[i], NewStatus(outcome[i]))
  <2>1. offers'[i] = [offers[i] EXCEPT !.status = status, !.verifiedAt = now]
    BY <1>1, <1>4 DEF RecordVerification
  <2>2. offers[i] \in Row /\ now \in 0 .. MaxTime
    BY <1>1, <1>4, BoundsAreNat DEF CatalogTypes
  <2>3. status \in Status
    BY <1>3, <2>2 DEF Column, Row
  <2>. HIDE DEF status
  <2>. QED  BY <2>1, <2>2, <2>3 DEF Row
<1>5. \A i \in Ids : i \notin taken => offers'[i] = offers[i]
  BY <1>1
<1>6. offers' \in [Ids -> Row \cup {NoRow}]
  <2>1. \A i \in Ids : offers'[i] \in Row \cup {NoRow}
    BY <1>4, <1>5 DEF CatalogTypes
  <2>. QED  BY <1>1, <2>1
<1>7. \A i \in Ids : i > lastId' => offers'[i] = NoRow
  <2>1. \A i \in Ids : i > lastId => i \notin taken
    BY <1>1 DEF CatalogTypes
  <2>. QED  BY <1>1, <1>5, <2>1 DEF CatalogTypes
<1>8. verdict' \in [Ids -> Status \cup {"none"}]
  BY <1>1, <1>3 DEF CatalogTypes
<1>9. session' \in [Sessions -> Copy]
  BY <1>1, <1>2, IdleIsCopy DEF CatalogTypes
<1>. QED  BY <1>1, <1>6, <1>7, <1>8, <1>9 DEF CatalogTypes

LEMMA CatalogTypesNext ==
  ASSUME CatalogTypes, Next
  PROVE  CatalogTypes'
<1>1. ASSUME NEW e \in Extractors, FetchPage(e) PROVE CatalogTypes'
  <2>. DEFINE rows == [i \in Ids |-> Facts(offers[i])]
              new == [Idle EXCEPT !.task = "extract", !.page = page, !.rows = rows]
  <2>1. session' = [session EXCEPT ![e] = new] /\ UNCHANGED <<offers, lastId, reminder, page, verdict, now, seeds>>
    BY <1>1 DEF FetchPage
  <2>2. rows \in [Ids -> RowFacts \cup {NoRow}]
    BY DEF CatalogTypes, Facts, Row, RowFacts
  <2>3. page \in 0 .. MaxPages
    BY BoundsAreNat DEF CatalogTypes
  <2>. HIDE DEF rows
  <2>4. new \in Copy
    BY <2>2, <2>3, IdleIsCopy DEF Copy
  <2>. HIDE DEF new
  <2>. QED  BY <2>1, <2>4 DEF CatalogTypes, Sessions
<1>2. ASSUME NEW v \in Verifiers, NEW task \in {"sweep", "single"}, NEW taken, taken \subseteq Listed(offers),
             LoadForVerification(v, task, taken)
      PROVE  CatalogTypes'
  <2>. DEFINE status == [i \in taken |-> offers[i].status]
              new == [Idle EXCEPT !.task = task, !.status = status]
  <2>1. session' = [session EXCEPT ![v] = new] /\ UNCHANGED <<offers, lastId, reminder, page, verdict, now, seeds>>
    BY <1>2 DEF LoadForVerification
  <2>2. \A i \in taken : i \in Ids /\ offers[i] \in Row
    BY <1>2 DEF CatalogTypes, Listed
  <2>3. taken \in SUBSET Ids /\ status \in [taken -> Status]
    BY <2>2 DEF Row
  <2>4. status \in UNION {[t -> Status] : t \in SUBSET Ids}
    BY <2>3
  <2>. HIDE DEF status
  <2>5. new \in Copy
    BY <2>4, IdleIsCopy DEF Copy
  <2>. HIDE DEF new
  <2>. QED  BY <2>1, <2>5 DEF CatalogTypes, Sessions
<1>3. ASSUME NEW v \in Verifiers, VerifySweep(v) PROVE CatalogTypes'
  <2>1. PICK taken \in Batches : LoadForVerification(v, "sweep", taken)
    BY <1>3 DEF VerifySweep
  <2>2. taken \subseteq Listed(offers)
    BY DEF Batches, Due, Listed
  <2>. QED  BY <1>2, <2>1, <2>2
<1>4. ASSUME NEW v \in Verifiers, VerifyOne(v) PROVE CatalogTypes'
  <2>1. PICK i \in Listed(offers) : LoadForVerification(v, "single", {i})
    BY <1>4 DEF VerifyOne
  <2>. QED  BY <1>2, <2>1
<1>5. ASSUME NEW s \in Sessions, Abort(s) PROVE CatalogTypes'
  <2>. HIDE DEF Copy
  <2>. QED  BY <1>5, IdleIsCopy DEF Abort, CatalogTypes
<1>6. ASSUME NEW v \in Verifiers, FinishVerification(v) PROVE CatalogTypes'
  BY <1>5, <1>6, VerificationTypes DEF FinishVerification, FailStale, Sessions
<1>7. CASE Seed
  BY <1>7, SeedTypes
<1>8. ASSUME NEW r \in Reminders, SetReminder(r) PROVE CatalogTypes'
  BY <1>8 DEF SetReminder, CatalogTypes, Listed
<1>9. CASE PageChanges
  BY <1>9, BoundsAreNat DEF PageChanges, CatalogTypes
<1>10. CASE Tick
  BY <1>10, BoundsAreNat DEF Tick, CatalogTypes
<1>11. ASSUME NEW e \in Extractors, NEW answer \in Answers, CommitExtraction(e, answer) PROVE CatalogTypes'
  BY <1>11, ExtractionTypes
<1>. QED  BY <1>1, <1>3, <1>4, <1>5, <1>6, <1>7, <1>8, <1>9, <1>10, <1>11 DEF Next, Extract

LEMMA CatalogTypesAlways == Spec => []CatalogTypes
<1>1. CatalogTypes /\ UNCHANGED vars => CatalogTypes'
  BY DEF CatalogTypes, vars
<1>2. CatalogTypes /\ [Next]_vars => CatalogTypes'
  BY <1>1, CatalogTypesNext
<1>. QED  BY CatalogTypesInit, <1>2, PTL DEF Spec

(* Every variable has its type: an answer of any length is applied within  *)
(* the ids that are left, no map of an extraction leads to a row that is   *)
(* not there, the curated rows get the next ids, one each.                 *)
THEOREM TypeCorrect == Spec => []TypeOK
<1>1. CatalogTypes => TypeOK
  <2>1. CatalogTypes => \A s \in Sessions : session[s] \in Copy
    BY DEF CatalogTypes
  <2>2. CatalogTypes => /\ offers \in [Ids -> Row \cup {NoRow}]
                        /\ lastId \in 0 .. MaxId
                        /\ \A i \in Ids : i > lastId => offers[i] = NoRow
                        /\ reminder \in [Reminders -> Ids \cup {NoId, Unset}]
                        /\ page \in 1 .. MaxPages
                        /\ verdict \in [Ids -> Status \cup {"none"}]
                        /\ now \in 1 .. MaxTime /\ seeds \in 0 .. MaxSeeds
    BY DEF CatalogTypes
  <2>3. ASSUME NEW copy \in Copy
        PROVE  /\ copy.task \in {"none", "extract", "sweep", "single"} /\ copy.page \in 0 .. MaxPages
               /\ copy.rows \in [Ids -> [title : Titles, type : Types] \cup {NoRow}]
               /\ copy.status \in UNION {[taken -> Status] : taken \in SUBSET Ids}
    BY DEF Copy, RowFacts
  <2>. HIDE DEF Copy
  <2>. QED  BY <2>1, <2>2, <2>3 DEF TypeOK
<1>. QED  BY <1>1, CatalogTypesAlways, PTL

----------------------------------------------------------------------------
(* A reminder loses its offer only by a retirement.                        *)

LEMMA GoneIsRetired ==
  ASSUME CatalogTypes, NEW gone \in Retirements(offers), NEW i \in gone
  PROVE  offers[i].title \in Retired
<1>. DEFINE title == offers[i].title
            these == gone \cap Titled(offers, title)
<1>1. i \in Ids /\ offers[i] # NoRow
  BY DEF Retirements, Listed
<1>2. title \in Titles
  BY <1>1 DEF CatalogTypes, Row
<1>3. i \in these
  BY <1>1 DEF Titled, Listed
<1>4. IsFiniteSet(these)
  <2>1. IsFiniteSet(Ids) /\ these \subseteq Ids
    BY BoundsAreNat, FS_Interval DEF Ids, Titled, Listed
  <2>. HIDE DEF these
  <2>. QED  BY <2>1, FS_Subset
<1>5. title \notin Retired => Cardinality(these) = 0
  BY <1>2 DEF Retirements
<1>. HIDE DEF these
<1>. QED  BY <1>3, <1>4, <1>5, FS_EmptySet

(* The deduplication of the seeding never takes an offer away from a       *)
(* reminder: only a title on the list of the retired ones does             *)
(* (seed_trials.py:429, :554).                                             *)
THEOREM OnlyRetirementCuts == Spec => ReminderKeepsOffer
<1>. DEFINE CutIsRetired == \A r \in Reminders :
       (reminder[r] \in Ids /\ reminder'[r] = NoId) => offers[reminder[r]].title \in Retired
<1>1. NoId \notin Ids
  BY DEF NoId, Ids
<1>2. ASSUME UNCHANGED reminder PROVE CutIsRetired
  BY <1>1, <1>2
<1>3. ASSUME CatalogTypes, NEW r \in Reminders, SetReminder(r) PROVE CutIsRetired
  BY <1>1, <1>3 DEF SetReminder, CatalogTypes, Listed
<1>4. ASSUME CatalogTypes, Seed PROVE CutIsRetired
  <2>1. PICK gone \in Retirements(offers) :
          reminder' = Moved(Without(offers, gone),
            [r \in Reminders |-> IF reminder[r] \in gone THEN NoId ELSE reminder[r]])
    BY <1>4 DEF Seed
  <2>. DEFINE kept == Without(offers, gone)
              cut == [r \in Reminders |-> IF reminder[r] \in gone THEN NoId ELSE reminder[r]]
  <2>2. \A i \in Ids : kept[i] = NoRow \/ IsRow(kept[i])
    BY <1>4, RowIsRow DEF CatalogTypes, Without
  <2>3. ASSUME NEW r \in Reminders, reminder[r] \in Ids, reminder'[r] = NoId
        PROVE  offers[reminder[r]].title \in Retired
    <3>. HIDE DEF kept
    <3>1. reminder'[r] = IF cut[r] \in Duplicates(kept) THEN Kept(kept, cut[r]) ELSE cut[r]
      BY <2>1 DEF Moved, kept
    <3>2. cut[r] \notin Duplicates(kept)
      <4>1. SUFFICES ASSUME cut[r] \in Duplicates(kept) PROVE FALSE
        OBVIOUS
      <4>2. cut[r] \in Listed(kept)
        BY <4>1 DEF Duplicates
      <4>3. Kept(kept, cut[r]) \in Ids
        BY <2>2, <4>2, KeptIsKept DEF Listed
      <4>. QED  BY <1>1, <2>3, <3>1, <4>1, <4>3
    <3>3. cut[r] = NoId
      BY <2>3, <3>1, <3>2
    <3>4. reminder[r] \in gone
      BY <1>1, <2>3, <3>3
    <3>. QED  BY <1>4, <3>4, GoneIsRetired
  <2>. QED  BY <2>3
<1>5. ASSUME CatalogTypes, Next PROVE CutIsRetired
  <2>1. ASSUME NEW e \in Extractors, Extract(e) PROVE UNCHANGED reminder
    BY <2>1 DEF Extract, FetchPage, CommitExtraction
  <2>2. ASSUME NEW v \in Verifiers, VerifySweep(v) \/ VerifyOne(v) \/ FinishVerification(v)
        PROVE  UNCHANGED reminder
    BY <2>2 DEF VerifySweep, VerifyOne, LoadForVerification, FinishVerification, CommitVerification,
                FailStale, Abort
  <2>3. ASSUME NEW s \in Sessions, Abort(s) PROVE UNCHANGED reminder
    BY <2>3 DEF Abort
  <2>4. CASE PageChanges \/ Tick
    BY <1>2, <2>4 DEF PageChanges, Tick
  <2>. HIDE DEF CutIsRetired
  <2>. QED  BY <1>2, <1>3, <1>4, <1>5, <2>1, <2>2, <2>3, <2>4 DEF Next
<1>6. CatalogTypes /\ [Next]_vars => [CutIsRetired]_vars
  BY <1>5
<1>. QED  BY <1>6, CatalogTypesAlways, PTL DEF Spec, ReminderKeepsOffer

----------------------------------------------------------------------------
(* An extraction whose copy is current.  The map by title is complete: an  *)
(* offer of the answer that has the title of a row lands on that row, and  *)
(* what is matched by its type or inserted has a title no row had.         *)

Current(e) == session[e].rows = [i \in Ids |-> Facts(offers[i])]

LEMMA CommitKeepsTitlesApart ==
  ASSUME CatalogTypes, NEW e \in Extractors, NEW answer \in Answers, CommitExtraction(e, answer),
         Current(e), Distinct(offers)
  PROVE  Distinct(offers')
<1>. DEFINE loaded == session[e].rows
            hash == session[e].page
<1>1. PICK byTitle, byType :
        LET base == Base(e, byTitle, byType)
            after == ApplyAnswer(base, answer)
        IN /\ byTitle \in Firsts([i \in Listed(loaded) |-> NameOf(loaded[i])], Titles)
           /\ offers' = [i \in Ids |-> FlushFacts(offers[i], loaded[i], after.rows[i], hash)]
           /\ Grown(base, after, Len(answer))
           /\ Findable(base) => Findable(after)
  BY ExtractionApplies
<1>. DEFINE base == Base(e, byTitle, byType)
            after == ApplyAnswer(base, answer)
<1>2. /\ byTitle \in Firsts([i \in Listed(loaded) |-> NameOf(loaded[i])], Titles)
      /\ offers' = [i \in Ids |-> FlushFacts(offers[i], loaded[i], after.rows[i], hash)]
      /\ Grown(base, after, Len(answer))
      /\ Findable(base) => Findable(after)
      /\ base.rows = loaded /\ base.byTitle = byTitle
  BY <1>1 DEF Base
<1>3. loaded = [i \in Ids |-> Facts(offers[i])]
  BY DEF Current
<1>. HIDE DEF base, after, loaded, hash
<1>4. ASSUME NEW i \in Ids
      PROVE  /\ offers[i] = NoRow <=> loaded[i] = NoRow
             /\ offers[i] # NoRow => offers[i] \in Row /\ loaded[i].title = offers[i].title
  <2>1. loaded[i] = Facts(offers[i])
    BY <1>3
  <2>2. CASE offers[i] = NoRow
    BY <2>1, <2>2 DEF Facts
  <2>3. CASE offers[i] # NoRow
    <3>1. loaded[i] = [title |-> offers[i].title, type |-> offers[i].type] /\ offers[i] \in Row
      BY <2>1, <2>3 DEF Facts, CatalogTypes
    <3>2. loaded[i] \in RowFacts
      BY <3>1 DEF Row, RowFacts
    <3>. QED  BY <2>3, <3>1, <3>2, FactsAreNoRow
  <2>. QED  BY <2>2, <2>3
<1>5. Findable(base)
  <2>1. SUFFICES ASSUME NEW i \in Ids, loaded[i] # NoRow, NameOf(loaded[i]) # Name[Default]
                 PROVE  byTitle[NameOf(loaded[i])] = i
    BY <1>2 DEF Findable
  <2>. DEFINE k == NameOf(loaded[i])
              j == byTitle[k]
  <2>2. k \in Titles
    BY <1>4, <2>1, TrialAssumption DEF NameOf, Row
  <2>3. i \in Listed(loaded)
    BY <2>1 DEF Listed
  <2>4. j \in Listed(loaded) /\ NameOf(loaded[j]) = k
    BY <1>2, <2>2, <2>3 DEF Firsts
  <2>5. j \in Listed(offers) /\ i \in Listed(offers)
    BY <1>4, <2>3, <2>4 DEF Listed
  <2>6. NameOf(offers[i]) = k /\ NameOf(offers[j]) = k
    BY <1>4, <2>4, <2>5 DEF NameOf, Listed
  <2>. QED  BY <2>1, <2>5, <2>6 DEF Distinct
<1>6. Findable(after)
  BY <1>2, <1>5
<1>7. ASSUME NEW i \in Ids, offers'[i] # NoRow
      PROVE  after.rows[i] # NoRow /\ offers'[i].title = after.rows[i].title
  <2>. DEFINE new == after.rows[i]
              was == loaded[i]
              db == offers[i]
  <2>1. offers'[i] = FlushFacts(db, was, new, hash)
    BY <1>2
  <2>2. was # NoRow => new # NoRow
    BY <1>2 DEF Grown
  <2>3. /\ db = NoRow <=> was = NoRow
        /\ db # NoRow => db \in Row /\ was.title = db.title
    BY <1>4
  <2>4. new # NoRow => new \in RowFacts
    BY <1>2 DEF Grown
  <2>. HIDE DEF new, was, db
  <2>5. new # NoRow
    BY <1>7, <2>1, <2>2, <2>3 DEF FlushFacts
  <2>6. CASE was = NoRow
    <3>1. offers'[i] = [title |-> new.title, type |-> new.type, hash |-> hash,
                        status |-> "unverified", verifiedAt |-> Never]
      BY <2>1, <2>5, <2>6 DEF FlushFacts
    <3>. QED  BY <2>5, <3>1 DEF new
  <2>7. CASE was # NoRow
    <3>. DEFINE a == Column(db.title, was.title, new.title)
                b == Column(db.type, was.type, new.type)
    <3>1. offers'[i] = [db EXCEPT !.title = a, !.type = b, !.hash = hash]
      BY <2>1, <2>5, <2>7 DEF FlushFacts
    <3>2. a = new.title
      BY <2>3, <2>7 DEF Column
    <3>. HIDE DEF a, b
    <3>3. offers'[i].title = a
      BY <2>3, <2>7, <3>1 DEF Row
    <3>. QED  BY <2>5, <3>2, <3>3 DEF new
  <2>. QED  BY <2>5, <2>6, <2>7 DEF new
<1>8. ASSUME NEW i \in Listed(offers'), NEW j \in Listed(offers'),
             NameOf(offers'[i]) = NameOf(offers'[j]), NameOf(offers'[i]) # Name[Default]
      PROVE  i = j
  <2>1. /\ i \in Ids /\ after.rows[i] # NoRow /\ NameOf(after.rows[i]) = NameOf(offers'[i])
        /\ j \in Ids /\ after.rows[j] # NoRow /\ NameOf(after.rows[j]) = NameOf(offers'[j])
    BY <1>7 DEF Listed, NameOf
  <2>. QED  BY <1>6, <1>8, <2>1 DEF Findable
<1>. QED  BY <1>8 DEF Distinct

(* An extraction whose copy is current never makes a second row of a title *)
(* that is no default one, in whatever order and with whatever types and   *)
(* spellings the LLM names the offers (trial_extraction.py:182).           *)
THEOREM ExtractionSeparates == Spec => ExtractionKeepsTitlesApart
<1>. DEFINE Apart == \A e \in Extractors :
       (session[e].task = "extract" /\ session[e].rows = [i \in Ids |-> Facts(offers[i])] /\ Distinct(offers)
          /\ session'[e].task = "none") => Distinct(offers')
<1>1. ASSUME CatalogTypes, Next, NEW e \in Extractors,
             session[e].task = "extract", Current(e), Distinct(offers), session'[e].task = "none"
      PROVE  Distinct(offers')
  <2>1. e \in Sessions /\ e \notin Verifiers /\ session \in [Sessions -> Copy]
    BY <1>1, TrialAssumption DEF Sessions, CatalogTypes
  <2>. HIDE DEF Copy
  <2>2. ASSUME UNCHANGED offers PROVE Distinct(offers')
    BY <1>1, <2>2
  <2>3. ASSUME NEW x \in Extractors, Extract(x) PROVE Distinct(offers')
    <3>1. CASE FetchPage(x)
      BY <2>2, <3>1 DEF FetchPage
    <3>2. ASSUME NEW answer \in Answers, CommitExtraction(x, answer) PROVE Distinct(offers')
      <4>1. x = e
        BY <1>1, <2>1, <3>2 DEF CommitExtraction, Sessions
      <4>. QED  BY <1>1, <3>2, <4>1, CommitKeepsTitlesApart
    <3>. QED  BY <2>3, <3>1, <3>2 DEF Extract
  <2>4. ASSUME NEW v \in Verifiers, VerifySweep(v) \/ VerifyOne(v) \/ FailStale(v) PROVE UNCHANGED offers
    BY <2>4 DEF VerifySweep, VerifyOne, LoadForVerification, FailStale, Abort
  <2>5. ASSUME NEW v \in Verifiers, NEW outcome, CommitVerification(v, outcome) PROVE FALSE
    <3>1. session' = [session EXCEPT ![v] = Idle]
      BY <2>5 DEF CommitVerification
    <3>2. session'[e] = session[e]
      BY <2>1, <3>1
    <3>. QED  BY <1>1, <3>2
  <2>6. CASE Seed
    BY <1>1, <2>6 DEF Seed
  <2>7. CASE (\E s \in Sessions : Abort(s)) \/ (\E r \in Reminders : SetReminder(r)) \/ PageChanges \/ Tick
    BY <2>2, <2>7 DEF Abort, SetReminder, PageChanges, Tick
  <2>. QED  BY <1>1, <2>2, <2>3, <2>4, <2>5, <2>6, <2>7 DEF Next, FinishVerification
<1>2. CatalogTypes /\ [Next]_vars => [Apart]_vars
  BY <1>1 DEF Current
<1>. QED  BY <1>2, CatalogTypesAlways, PTL DEF Spec, ExtractionKeepsTitlesApart

=============================================================================
