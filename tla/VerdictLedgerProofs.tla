------------------------- MODULE VerdictLedgerProofs -------------------------
(* The ledger gives at most one notice per opening, for any number of runs   *)
(* and announcers.                                                           *)
EXTENDS VerdictLedger, FiniteSetTheorems, TLAPS

LedgerInv == LedgerTypeOK /\ NoticesBounded

\* Sets of announcers are finite, so that their cardinality counts.
LEMMA DueFinite ==
    ASSUME IsFiniteSet(Announcers), LedgerTypeOK, NEW r \in Runs
    PROVE  IsFiniteSet(due[r]) /\ Cardinality(due[r]) \in Nat
<1>1. due[r] \subseteq Announcers
  BY DEF LedgerTypeOK
<1>2. IsFiniteSet(due[r])
  BY <1>1, FS_Subset
<1> QED BY <1>2, FS_CardinalityType

\* The empty ledger is within bounds.
LEMMA LedgerInitial == Init => LedgerInv
<1> SUFFICES ASSUME Init PROVE LedgerInv
  OBVIOUS
<1>1. LedgerTypeOK
  BY DEF Init, LedgerTypeOK
<1>2. \A r \in Runs : Cardinality(due[r]) = 0
  BY FS_EmptySet DEF Init
<1>3. NoticesBounded
  BY <1>2 DEF Init, NoticesBounded
<1> QED BY <1>1, <1>3 DEF LedgerInv

\* No step of the ledger takes it out of bounds.
LEMMA LedgerStep ==
    ASSUME IsFiniteSet(Announcers)
    PROVE  LedgerInv /\ [Next]_ledger => LedgerInv'
<1> SUFFICES ASSUME LedgerInv, [Next]_ledger PROVE LedgerInv'
  OBVIOUS
<1> USE DEF LedgerInv
<1>1. ASSUME NEW r \in Runs, Open(r) PROVE LedgerInv'
  <2>1. LedgerTypeOK'
    BY <1>1 DEF Open, LedgerTypeOK
  <2>2. ASSUME NEW s \in Runs PROVE Cardinality(due[s]) \in Nat
    BY <2>2, DueFinite
  <2>3. NoticesBounded'
    BY <1>1, <2>2 DEF Open, LedgerTypeOK, NoticesBounded
  <2> QED BY <2>1, <2>3
<1>2. ASSUME NEW r \in Runs, CloseSilently(r) PROVE LedgerInv'
  <2>1. LedgerTypeOK'
    BY <1>2 DEF CloseSilently, LedgerTypeOK
  <2>2. ASSUME NEW s \in Runs PROVE Cardinality(due[s]) \in Nat
    BY <2>2, DueFinite
  <2>3. NoticesBounded'
    BY <1>2, <2>2 DEF CloseSilently, LedgerTypeOK, NoticesBounded
  <2> QED BY <2>1, <2>3
<1>3. ASSUME NEW r \in Runs, NEW a \in Announcers, Close(r, a) PROVE LedgerInv'
  <2>1. LedgerTypeOK'
    BY <1>3 DEF Close, LedgerTypeOK
  <2>2. ASSUME NEW s \in Runs PROVE Cardinality(due[s]) \in Nat
    BY <2>2, DueFinite
  <2>3. Cardinality(due[r] \cup {a}) = Cardinality(due[r]) + 1
    BY <1>3, DueFinite, FS_AddElement DEF Close
  <2>4. NoticesBounded'
    BY <1>3, <2>2, <2>3 DEF Close, LedgerTypeOK, NoticesBounded
  <2> QED BY <2>1, <2>4
<1>4. ASSUME NEW r \in Runs, NEW a \in Announcers, Announce(r, a) PROVE LedgerInv'
  <2>1. LedgerTypeOK'
    BY <1>4 DEF Announce, LedgerTypeOK
  <2>2. ASSUME NEW s \in Runs PROVE Cardinality(due[s]) \in Nat
    BY <2>2, DueFinite
  <2>3. Cardinality(due[r] \ {a}) = Cardinality(due[r]) - 1
    BY <1>4, DueFinite, FS_RemoveElement DEF Announce
  <2>4. NoticesBounded'
    BY <1>4, <2>2, <2>3 DEF Announce, LedgerTypeOK, NoticesBounded
  <2> QED BY <2>1, <2>4
<1>5. ASSUME Lose PROVE LedgerInv'
  <2>1. LedgerTypeOK'
    BY <1>5 DEF Lose, LedgerTypeOK
  <2>2. ASSUME NEW s \in Runs
        PROVE  /\ Cardinality(due[s]) \in Nat /\ Cardinality(due'[s]) \in Nat
               /\ Cardinality(due'[s]) <= Cardinality(due[s])
    <3>1. due'[s] \subseteq due[s]
      BY <1>5, <2>2 DEF Lose
    <3> QED BY <3>1, DueFinite, FS_Subset, FS_CardinalityType
  <2>3. NoticesBounded'
    BY <1>5, <2>2 DEF Lose, LedgerTypeOK, NoticesBounded
  <2> QED BY <2>1, <2>3
<1>6. CASE UNCHANGED ledger
  BY <1>6 DEF ledger, LedgerTypeOK, NoticesBounded
<1> QED BY <1>1, <1>2, <1>3, <1>4, <1>5, <1>6 DEF Next

(* No user is told twice of one opening of a run, whatever is lost.          *)
THEOREM LedgerBounded ==
    ASSUME IsFiniteSet(Announcers)
    PROVE  Spec => []NoticesBounded
<1>1. LedgerInv => NoticesBounded
  BY DEF LedgerInv
<1> QED BY <1>1, LedgerInitial, LedgerStep, PTL DEF Spec
=============================================================================
