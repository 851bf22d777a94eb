---------------------------- MODULE RunVerdictProofs ----------------------------
(***************************************************************************)
(* The evidence fold and the verdict of a run, for every set of targets    *)
(* and items, ledgers of any length and every point at which a submission  *)
(* may be cut off.                                                         *)
(*                                                                         *)
(* The fold of the ledger agrees with its reading by history.  What item k *)
(* said is read from the prefix of the ledger that ends with it, so later  *)
(* items do not change it (HistoryIsStable); one pass of the loop adds one *)
(* decisive or indecisive item at the end.                                 *)
(*                                                                         *)
(* The fold goes on under the verdicts as it does alone, so what is proved *)
(* of it carries over.  The rest is one invariant: while the run is open,  *)
(* the stream ends with a coverage and a noted verdict is a GateKeeper's;  *)
(* once it is closed, nothing moves, and the verdict is the public status  *)
(* of what was then on disk, with refs the stream had accepted.            *)
(***************************************************************************)
EXTENDS RunVerdict, TLAPS

-----------------------------------------------------------------------------
(* The fold of the ledger.                                                 *)

\* A new item at the end leaves the prefixes of the ledger as they were.
LEMMA AppendPrefix ==
  ASSUME NEW S, NEW s \in Seq(S), NEW e \in S
  PROVE  /\ Append(s, e) \in Seq(S)
         /\ Len(Append(s, e)) = Len(s) + 1
         /\ DOMAIN Append(s, e) = (DOMAIN s) \cup {Len(s) + 1}
         /\ Append(s, e)[Len(s) + 1] = e
         /\ \A k \in DOMAIN s : Append(s, e)[k] = s[k]
         /\ \A k \in DOMAIN s : SubSeq(Append(s, e), 1, k) = SubSeq(s, 1, k)
         /\ SubSeq(Append(s, e), 1, Len(s) + 1) = Append(s, e)
OBVIOUS

\* What the fold looks up in a ledger is items and evidence ids.
LEMMA LedgerTypes ==
  ASSUME NEW l \in Seq(Items), l # <<>>
  PROVE  /\ l[Len(l)] \in Item
         /\ SupportingIds(l) \subseteq EvidenceIds
         /\ KnownIds(l) \subseteq EvidenceIds
<1>1. \A k \in DOMAIN l : l[k] \in Item
  BY CoverageAssumption
<1>2. Len(l) \in DOMAIN l
  OBVIOUS
<1>3. \A k \in DOMAIN l : l[k].id \in EvidenceIds
  BY <1>1 DEF Item
<1>4. QED
  BY <1>1, <1>2, <1>3 DEF KnownIds, SupportingIds

LEMMA SupportTypes ==
  ASSUME NEW l \in Seq(Items), l # <<>>, NEW t \in Targets
  PROVE  TargetSupport(l, t) \subseteq EvidenceIds
<1>1. l[Len(l)].id \in EvidenceIds
  BY LedgerTypes DEF Item
<1>2. QED
  BY <1>1, LedgerTypes DEF TargetSupport

-----------------------------------------------------------------------------
(* Type correctness.                                                       *)

LEMMA StatusTypes ==
  ASSUME NEW status \in Statuses, NEW report \in Reports, NEW support
  PROVE  StatusAfter(status, report, support) \in Statuses
BY DEF StatusAfter, Statuses, Reports

LEMMA RowTypes ==
  ASSUME NEW l \in Seq(Items), l # <<>>, NEW t \in Targets, NEW row \in Row
  PROVE  RowAfter(row, l, t) \in Row
<1> DEFINE item == l[Len(l)]
           report == item.reports[t].status
           support == TargetSupport(l, t)
<1>1. item \in Item /\ support \subseteq EvidenceIds
  BY LedgerTypes, SupportTypes
<1>2. report \in Reports /\ item.id \in EvidenceIds
  BY <1>1 DEF Item
<1>3. StatusAfter(row.status, report, support) \in Statuses
  BY <1>2, StatusTypes DEF Row
<1>4. KeptRefs(row, report, support) \subseteq EvidenceIds
  BY DEF KeptRefs, Row
<1>5. CitedRefs(item.id, report, support) \subseteq EvidenceIds
  BY <1>1, <1>2 DEF CitedRefs
<1>6. QED
  BY <1>3, <1>4, <1>5 DEF RowAfter, Row

LEMMA GatekeeperTypes ==
  ASSUME NEW l \in Seq(Items), l # <<>>
  PROVE  GatekeeperProjection(l) \in Gatekeeper
BY LedgerTypes DEF GatekeeperProjection, Gatekeeper, Item, SelfMeasured

\* Every state of the fold is typed: rows keep one of the four statuses and cite known ids.
THEOREM CoverageTypeCorrect == Spec => []TypeOK
<1>1. Init => TypeOK
  BY CoverageAssumption DEF Init, TypeOK, Row, Statuses
<1>2. TypeOK /\ [Next]_vars => TypeOK'
  <2>1. SUFFICES ASSUME TypeOK, NEW item \in Items, Collect(item) PROVE TypeOK'
    BY DEF Next, TypeOK, vars
  <2>2. ledger' \in Seq(Items) /\ ledger' # <<>> /\ Len(ledger') <= MaxItems
    BY <2>1, CoverageAssumption DEF TypeOK, Collect
  <2>3. rows' \in [Targets -> Row]
    BY <2>1, <2>2, RowTypes DEF TypeOK, Collect
  <2>4. latestGatekeeper' \in Gatekeeper \cup {NoGatekeeper}
    BY <2>1, <2>2, GatekeeperTypes DEF TypeOK, Collect
  <2>5. QED
    BY <2>2, <2>3, <2>4 DEF TypeOK
<1>3. QED
  BY <1>1, <1>2, PTL DEF Spec

-----------------------------------------------------------------------------
(* What an item said does not depend on later items.                       *)

\* The last item n of the ledger after Collect, and the history before it.
LEMMA HistoryIsStable ==
  ASSUME TypeOK, NEW item \in Items, Collect(item), NEW t \in Targets,
         NEW n \in Nat, n = Len(ledger) + 1
  PROVE  /\ Len(ledger') = n
         /\ DOMAIN ledger' = DOMAIN ledger \cup {n}
         /\ \A k \in DOMAIN ledger : k \in Nat /\ k < n
         /\ \A k \in DOMAIN ledger :
              /\ Negates(k, t)' = Negates(k, t)
              /\ Covers(k, t)' = Covers(k, t)
              /\ Hints(k, t)' = Hints(k, t)
              /\ TargetSupport(Prefix(k), t)' = TargetSupport(Prefix(k), t)
              /\ ledger'[k] = ledger[k]
         /\ ledger'[n] = item
         /\ Prefix(n)' = ledger'
<1>1. ledger \in Seq(Items) /\ ledger' = Append(ledger, item)
  BY DEF TypeOK, Collect
<1>2. \A k \in DOMAIN ledger : /\ SubSeq(ledger', 1, k) = SubSeq(ledger, 1, k)
                               /\ ledger'[k] = ledger[k]
  BY <1>1, AppendPrefix
<1>3. /\ Len(ledger') = n
      /\ DOMAIN ledger' = DOMAIN ledger \cup {n}
      /\ ledger'[n] = item
      /\ SubSeq(ledger', 1, n) = ledger'
  BY <1>1, AppendPrefix
<1>4. \A k \in DOMAIN ledger : k \in Nat /\ k < n
  BY <1>1
<1>5. ASSUME NEW k \in DOMAIN ledger
      PROVE  /\ Negates(k, t)' = Negates(k, t)
             /\ Covers(k, t)' = Covers(k, t)
             /\ Hints(k, t)' = Hints(k, t)
             /\ TargetSupport(Prefix(k), t)' = TargetSupport(Prefix(k), t)
  <2>1. Prefix(k)' = Prefix(k)
    BY <1>2 DEF Prefix
  <2>2. TargetSupport(Prefix(k), t)' = TargetSupport(Prefix(k), t)
    BY <2>1 DEF TargetSupport, SupportingIds, IsCurrent
  <2>3. QED
    BY <1>2, <2>2 DEF Negates, Covers, Hints
<1>6. Prefix(n)' = ledger'
  BY <1>3 DEF Prefix
<1>7. QED
  BY <1>2, <1>3, <1>4, <1>5, <1>6

\* The row of a target after Collect, by what the new item n says of it.
LEMMA RowByLastItem ==
  ASSUME TypeOK, NEW item \in Items, Collect(item), NEW t \in Targets,
         NEW n \in Nat, n = Len(ledger) + 1
  PROVE  /\ Negates(n, t)' => rows'[t].status = "blocked" /\ ~Covers(n, t)'
         /\ Covers(n, t)' =>
              /\ rows'[t].status = "covered"
              /\ rows'[t].refs = (IF rows[t].status = "covered" THEN rows[t].refs ELSE {})
                                    \cup TargetSupport(Prefix(n), t)'
         /\ ~Negates(n, t)' /\ ~Covers(n, t)' =>
              /\ rows'[t].status = rows[t].status \/ rows'[t].status = "weak"
              /\ rows[t].status \in {"blocked", "covered"} =>
                   rows'[t].status = rows[t].status
              /\ rows'[t].status = "weak" => rows[t].status = "weak" \/ Hints(n, t)'
              /\ rows'[t].status = "missing" => rows[t].status = "missing" /\ ~Hints(n, t)'
              /\ rows[t].refs \subseteq rows'[t].refs \/ rows'[t].status # "covered"
              /\ rows'[t].refs \subseteq
                   rows[t].refs \cup TargetSupport(Prefix(n), t)' \cup {item.id}
<1> DEFINE report == item.reports[t].status
           support == TargetSupport(ledger', t)
<1>1. /\ ledger'[n] = item
      /\ Prefix(n)' = ledger'
      /\ rows'[t] = RowAfter(rows[t], ledger', t)
      /\ rows[t] \in Row
      /\ Len(ledger') = n
  BY HistoryIsStable DEF Collect, TypeOK
<1>2. TargetSupport(Prefix(n), t)' = support
  BY <1>1 DEF TargetSupport, SupportingIds, IsCurrent
<1>3. /\ Negates(n, t)' <=> report = "negative"
      /\ Covers(n, t)' <=> report = "positive" /\ support # {}
      /\ Hints(n, t)' <=> report \in {"positive", "weak"}
  BY <1>1, <1>2 DEF Negates, Covers, Hints
<1>4. rows'[t] = IF report = "none" THEN rows[t]
                 ELSE [status |-> StatusAfter(rows[t].status, report, support),
                       refs |-> KeptRefs(rows[t], report, support)
                                  \cup CitedRefs(item.id, report, support)]
  BY <1>1 DEF RowAfter
<1> HIDE DEF report, support
<1>5. QED
  BY <1>1, <1>2, <1>3, <1>4 DEF StatusAfter, KeptRefs, CitedRefs, Row, Statuses

\* A step that leaves the ledger alone leaves its reading alone.
LEMMA StutterKeepsHistory ==
  ASSUME UNCHANGED ledger, NEW t \in Targets, NEW k \in DOMAIN ledger
  PROVE  /\ Negates(k, t)' = Negates(k, t)
         /\ Covers(k, t)' = Covers(k, t)
         /\ Hints(k, t)' = Hints(k, t)
         /\ TargetSupport(Prefix(k), t)' = TargetSupport(Prefix(k), t)
<1>1. Prefix(k)' = Prefix(k)
  BY DEF Prefix
<1>2. TargetSupport(Prefix(k), t)' = TargetSupport(Prefix(k), t)
  BY <1>1 DEF TargetSupport, SupportingIds, IsCurrent
<1>3. QED
  BY <1>2 DEF Negates, Covers, Hints

-----------------------------------------------------------------------------
(* The rows are what the history says.                                     *)

\* For one target: the statement of StatusByHistory.
StatusAgrees(t) ==
  /\ rows[t].status = "covered" <=> \E k \in DOMAIN ledger : CoveredBy(k, t)
  /\ rows[t].status = "blocked" <=> \E k \in DOMAIN ledger : BlockedBy(k, t)
  /\ rows[t].status = "weak" => \E k \in DOMAIN ledger : Hints(k, t)
  /\ rows[t].status = "missing" => \A k \in DOMAIN ledger : ~Hints(k, t) /\ ~Negates(k, t)

LEMMA CollectKeepsStatus ==
  ASSUME TypeOK, NEW item \in Items, Collect(item), NEW t \in Targets, StatusAgrees(t)
  PROVE  StatusAgrees(t)'
<1>1. PICK n \in Nat : n = Len(ledger) + 1
  BY DEF TypeOK
<1>2. /\ DOMAIN ledger' = DOMAIN ledger \cup {n}
      /\ \A k \in DOMAIN ledger : k \in Nat /\ k < n
      /\ \A k \in DOMAIN ledger : /\ Negates(k, t)' = Negates(k, t)
                                  /\ Covers(k, t)' = Covers(k, t)
                                  /\ Hints(k, t)' = Hints(k, t)
  BY <1>1, HistoryIsStable
<1>3. \A k \in DOMAIN ledger :
        /\ CoveredBy(k, t)' <=> CoveredBy(k, t) /\ ~Negates(n, t)'
        /\ BlockedBy(k, t)' <=> BlockedBy(k, t) /\ ~Covers(n, t)'
  BY <1>1, <1>2 DEF CoveredBy, BlockedBy
<1>4. /\ CoveredBy(n, t)' <=> Covers(n, t)'
      /\ BlockedBy(n, t)' <=> Negates(n, t)'
  BY <1>1, <1>2 DEF CoveredBy, BlockedBy
<1>5. CASE Negates(n, t)'
  <2>1. rows'[t].status = "blocked" /\ ~Covers(n, t)'
    BY <1>1, <1>5, RowByLastItem
  <2>2. QED
    BY <1>2, <1>3, <1>4, <1>5, <2>1 DEF StatusAgrees
<1>6. CASE Covers(n, t)'
  <2>1. rows'[t].status = "covered" /\ ~Negates(n, t)'
    BY <1>1, <1>6, RowByLastItem DEF Covers, Negates
  <2>2. QED
    BY <1>2, <1>3, <1>4, <1>6, <2>1 DEF StatusAgrees
<1>7. CASE ~Negates(n, t)' /\ ~Covers(n, t)'
  <2>1. /\ rows'[t].status = rows[t].status \/ rows'[t].status = "weak"
        /\ rows[t].status \in {"blocked", "covered"} => rows'[t].status = rows[t].status
        /\ rows'[t].status = "weak" => rows[t].status = "weak" \/ Hints(n, t)'
        /\ rows'[t].status = "missing" => rows[t].status = "missing" /\ ~Hints(n, t)'
    BY <1>1, <1>7, RowByLastItem
  <2>2. rows'[t].status = "covered" <=> rows[t].status = "covered"
    BY <2>1
  <2>3. rows'[t].status = "blocked" <=> rows[t].status = "blocked"
    BY <2>1
  <2>4. (\E k \in DOMAIN ledger' : CoveredBy(k, t)') <=> \E k \in DOMAIN ledger : CoveredBy(k, t)
    BY <1>2, <1>3, <1>4, <1>7
  <2>5. (\E k \in DOMAIN ledger' : BlockedBy(k, t)') <=> \E k \in DOMAIN ledger : BlockedBy(k, t)
    BY <1>2, <1>3, <1>4, <1>7
  <2>6. rows'[t].status = "weak" => \E k \in DOMAIN ledger' : Hints(k, t)'
    BY <1>2, <2>1 DEF StatusAgrees
  <2>7. rows'[t].status = "missing" =>
          \A k \in DOMAIN ledger' : ~Hints(k, t)' /\ ~Negates(k, t)'
    BY <1>2, <1>7, <2>1 DEF StatusAgrees
  <2>8. QED
    BY <2>2, <2>3, <2>4, <2>5, <2>6, <2>7 DEF StatusAgrees
<1>8. QED
  BY <1>5, <1>6, <1>7

\* What the loop leaves in a row is the reading of the whole history: the last decisive
\* report decides.  TypeOK is all that the induction needs besides.
THEOREM StatusIsHistory == Spec => []StatusByHistory
<1>1. Init => StatusByHistory
  BY DEF Init, StatusByHistory, Targets
<1>2. TypeOK /\ StatusByHistory /\ [Next]_vars => StatusByHistory'
  <2>1. ASSUME TypeOK, StatusByHistory, NEW item \in Items, Collect(item)
        PROVE  StatusByHistory'
    <3>1. \A t \in Targets : StatusAgrees(t)'
      BY <2>1, CollectKeepsStatus DEF StatusByHistory, StatusAgrees
    <3>2. QED
      BY <3>1 DEF StatusByHistory, StatusAgrees
  <2>2. ASSUME StatusByHistory, UNCHANGED vars PROVE StatusByHistory'
    <3>1. \A t \in Targets, k \in DOMAIN ledger : /\ CoveredBy(k, t)' = CoveredBy(k, t)
                                                 /\ BlockedBy(k, t)' = BlockedBy(k, t)
      BY <2>2, StutterKeepsHistory DEF CoveredBy, BlockedBy, vars
    <3>2. QED
      BY <2>2, <3>1, StutterKeepsHistory DEF StatusByHistory, vars
  <2>3. QED
    BY <2>1, <2>2 DEF Next
<1>3. QED
  BY <1>1, <1>2, CoverageTypeCorrect, PTL DEF Spec

-----------------------------------------------------------------------------
(* The refs of a covered target.                                           *)

\* For one target: the statement of CoveredRefsAreCurrent.
RefsAgree(t) == rows[t].status = "covered" => \E k \in DOMAIN ledger : RefsStandOn(k, t)

\* A new item n only adds to the refs brought since item k.
LEMMA RefsSinceGrows ==
  ASSUME TypeOK, NEW item \in Items, Collect(item), NEW t \in Targets,
         NEW n \in Nat, n = Len(ledger) + 1
  PROVE  /\ \A k \in DOMAIN ledger :
              /\ RefsSince(k, t) \subseteq RefsSince(k, t)'
              /\ TargetSupport(Prefix(n), t)' \cup {item.id} \subseteq RefsSince(k, t)'
         /\ TargetSupport(Prefix(n), t)' \subseteq RefsSince(n, t)'
<1>1. /\ DOMAIN ledger' = DOMAIN ledger \cup {n}
      /\ \A k \in DOMAIN ledger : k \in Nat /\ k < n
      /\ \A k \in DOMAIN ledger : /\ TargetSupport(Prefix(k), t)' = TargetSupport(Prefix(k), t)
                                  /\ ledger'[k] = ledger[k]
      /\ ledger'[n] = item
  BY HistoryIsStable
<1>2. ASSUME NEW k \in DOMAIN ledger', NEW j \in DOMAIN ledger', j >= k
      PROVE  TargetSupport(Prefix(j), t)' \cup {ledger'[j].id} \subseteq RefsSince(k, t)'
  BY <1>2 DEF RefsSince
<1>3. ASSUME NEW k \in DOMAIN ledger
      PROVE  RefsSince(k, t) \subseteq RefsSince(k, t)'
  <2>1. SUFFICES ASSUME NEW j \in DOMAIN ledger, j >= k
                 PROVE  TargetSupport(Prefix(j), t) \cup {ledger[j].id} \subseteq RefsSince(k, t)'
    BY DEF RefsSince
  <2>2. TargetSupport(Prefix(j), t)' \cup {ledger'[j].id} \subseteq RefsSince(k, t)'
    BY <1>1, <1>2, <2>1
  <2>3. QED
    BY <1>1, <2>2
<1>4. ASSUME NEW k \in DOMAIN ledger
      PROVE  TargetSupport(Prefix(n), t)' \cup {item.id} \subseteq RefsSince(k, t)'
  <2>1. n \in DOMAIN ledger' /\ k \in DOMAIN ledger' /\ n >= k
    BY <1>1
  <2>2. QED
    BY <1>1, <1>2, <2>1
<1>5. TargetSupport(Prefix(n), t)' \subseteq RefsSince(n, t)'
  <2>1. n \in DOMAIN ledger' /\ n >= n
    BY <1>1
  <2>2. QED
    BY <1>2, <2>1
<1>6. QED
  BY <1>3, <1>4, <1>5

LEMMA CollectKeepsRefs ==
  ASSUME TypeOK, NEW item \in Items, Collect(item), NEW t \in Targets, RefsAgree(t)
  PROVE  RefsAgree(t)'
<1>1. PICK n \in Nat : n = Len(ledger) + 1
  BY DEF TypeOK
<1>2. /\ DOMAIN ledger' = DOMAIN ledger \cup {n}
      /\ \A k \in DOMAIN ledger : k \in Nat /\ k < n
      /\ \A k \in DOMAIN ledger : /\ Negates(k, t)' = Negates(k, t)
                                  /\ Covers(k, t)' = Covers(k, t)
                                  /\ TargetSupport(Prefix(k), t)' = TargetSupport(Prefix(k), t)
  BY <1>1, HistoryIsStable
<1>3. SUFFICES ASSUME rows'[t].status = "covered"
               PROVE  \E k \in DOMAIN ledger' : RefsStandOn(k, t)'
  BY DEF RefsAgree
<1>4. ~Negates(n, t)'
  BY <1>1, <1>3, RowByLastItem
<1>5. CASE rows[t].status = "covered"
  <2>1. PICK k \in DOMAIN ledger : RefsStandOn(k, t)
    BY <1>5 DEF RefsAgree
  <2>2. CoveredBy(k, t)'
    BY <1>1, <1>2, <1>4, <2>1 DEF CoveredBy, RefsStandOn
  <2>3. /\ rows[t].refs \subseteq rows'[t].refs
        /\ rows'[t].refs \subseteq rows[t].refs \cup TargetSupport(Prefix(n), t)' \cup {item.id}
    <3>1. CASE Covers(n, t)'
      BY <1>1, <1>5, <3>1, RowByLastItem
    <3>2. CASE ~Covers(n, t)'
      BY <1>1, <1>3, <1>4, <3>2, RowByLastItem
    <3>3. QED
      BY <3>1, <3>2
  <2>4. /\ RefsSince(k, t) \subseteq RefsSince(k, t)'
        /\ TargetSupport(Prefix(n), t)' \cup {item.id} \subseteq RefsSince(k, t)'
    BY <1>1, RefsSinceGrows
  <2>5. rows'[t].refs \subseteq RefsSince(k, t)'
    BY <2>1, <2>3, <2>4 DEF RefsStandOn
  <2>6. TargetSupport(Prefix(k), t)' \subseteq rows'[t].refs
    BY <1>2, <2>1, <2>3 DEF RefsStandOn
  <2>7. RefsStandOn(k, t)'
    BY <2>2, <2>5, <2>6 DEF RefsStandOn
  <2>8. QED
    BY <1>2, <2>7
<1>6. CASE rows[t].status # "covered"
  <2>1. Covers(n, t)'
    <3>1. ~Covers(n, t)' => rows'[t].status = rows[t].status \/ rows'[t].status = "weak"
      BY <1>1, <1>4, RowByLastItem
    <3>2. QED
      BY <1>3, <1>6, <3>1
  <2>2. rows'[t].refs = TargetSupport(Prefix(n), t)'
    <3>1. rows'[t].refs = (IF rows[t].status = "covered" THEN rows[t].refs ELSE {})
                            \cup TargetSupport(Prefix(n), t)'
      BY <1>1, <2>1, RowByLastItem
    <3>2. QED
      BY <1>6, <3>1
  <2>3. n \in DOMAIN ledger' /\ \A j \in DOMAIN ledger' : ~(j > n)
    BY <1>1, <1>2
  <2>4. CoveredBy(n, t)'
    BY <2>1, <2>3 DEF CoveredBy
  <2>5. TargetSupport(Prefix(n), t)' \subseteq RefsSince(n, t)'
    BY <1>1, RefsSinceGrows
  <2>6. RefsStandOn(n, t)'
    BY <2>2, <2>4, <2>5 DEF RefsStandOn
  <2>7. QED
    BY <2>3, <2>6
<1>7. QED
  BY <1>5, <1>6

\* What a covered target cites is the support of the item that covered it and of later
\* items only: refs from before a block are gone.
THEOREM RefsAreCurrent == Spec => []CoveredRefsAreCurrent
<1>1. Init => CoveredRefsAreCurrent
  BY DEF Init, CoveredRefsAreCurrent
<1>2. TypeOK /\ CoveredRefsAreCurrent /\ [Next]_vars => CoveredRefsAreCurrent'
  <2>1. ASSUME TypeOK, CoveredRefsAreCurrent, NEW item \in Items, Collect(item)
        PROVE  CoveredRefsAreCurrent'
    <3>1. \A t \in Targets : RefsAgree(t)'
      BY <2>1, CollectKeepsRefs DEF CoveredRefsAreCurrent, RefsAgree
    <3>2. QED
      BY <3>1 DEF CoveredRefsAreCurrent, RefsAgree
  <2>2. ASSUME CoveredRefsAreCurrent, UNCHANGED vars PROVE CoveredRefsAreCurrent'
    <3>1. \A t \in Targets, k \in DOMAIN ledger : RefsStandOn(k, t)' = RefsStandOn(k, t)
      <4>1. \A t \in Targets, k \in DOMAIN ledger : RefsSince(k, t)' = RefsSince(k, t)
        BY <2>2, StutterKeepsHistory DEF RefsSince, vars
      <4>2. QED
        BY <2>2, <4>1, StutterKeepsHistory DEF RefsStandOn, CoveredBy, vars
    <3>2. QED
      BY <2>2, <3>1 DEF CoveredRefsAreCurrent, vars
  <2>3. QED
    BY <2>1, <2>2 DEF Next
<1>3. QED
  BY <1>1, <1>2, CoverageTypeCorrect, PTL DEF Spec

-----------------------------------------------------------------------------
(* What the GateKeeper's verdict and a passable coverage rest on.          *)

\* A verdict is held only of a ledger that has one.
VerdictHasLedger == latestGatekeeper # NoGatekeeper => ledger # <<>>

\* A rejection that is still the latest verdict blocks the coverage: no report of a step,
\* before it or after it, takes the finish target back.
THEOREM RejectionBlocks == Spec => []RejectionBlocksCoverage
<1>1. Init => VerdictHasLedger
  BY DEF Init, VerdictHasLedger
<1>2. TypeOK /\ VerdictHasLedger /\ [Next]_vars => VerdictHasLedger'
  <2>1. ASSUME TypeOK, NEW item \in Items, Collect(item) PROVE ledger' # <<>>
    BY <2>1 DEF TypeOK, Collect
  <2>2. QED
    BY <2>1 DEF Next, vars, VerdictHasLedger
<1>3. VerdictHasLedger => RejectionBlocksCoverage
  <2>1. SUFFICES ASSUME VerdictHasLedger, GatekeeperMode, latestGatekeeper.result = "blocked"
                 PROVE  OverallStatus(ledger, Coverage) = "blocked"
    BY DEF RejectionBlocksCoverage
  <2>2. ledger # <<>>
    BY <2>1 DEF VerdictHasLedger, NoGatekeeper
  <2>3. Finish \in Targets
    BY <2>1 DEF Targets
  <2>4. Coverage[Finish].status = "blocked"
    BY <2>1, <2>3 DEF Coverage, CoverageOf, FinishedRow
  <2>5. QED
    BY <2>2, <2>3, <2>4 DEF OverallStatus
<1>4. QED
  BY <1>1, <1>2, <1>3, CoverageTypeCorrect, PTL DEF Spec

\* Support that an item brought for a target is an item of the ledger that supports it.
LEMMA SupportIsInLedger ==
  ASSUME TypeOK, NEW t \in Targets, NEW k \in DOMAIN ledger,
         NEW id \in TargetSupport(Prefix(k), t)
  PROVE  \E j \in DOMAIN ledger :
           ledger[j].id = id /\ (Supports(ledger[j]) \/ SelfMeasured(ledger[j]))
<1>1. ledger \in Seq(Items)
  BY DEF TypeOK
<1>2. /\ Prefix(k)[Len(Prefix(k))] = ledger[k]
      /\ \A j \in DOMAIN Prefix(k) : j \in DOMAIN ledger /\ Prefix(k)[j] = ledger[j]
  BY <1>1 DEF Prefix
<1>3. CASE id \in SupportingIds(Prefix(k))
  BY <1>2, <1>3 DEF SupportingIds
<1>4. CASE id \notin SupportingIds(Prefix(k))
  BY <1>2, <1>4 DEF TargetSupport
<1>5. QED
  BY <1>3, <1>4

\* No run can be passed on the bare word of a report: under a passable coverage every check
\* of the spec cites an item of the ledger that supports it.
THEOREM PassableIsSupported == Spec => []PassableCoverageIsSupported
<1>1. TypeOK /\ CoveredRefsAreCurrent => PassableCoverageIsSupported
  <2>1. SUFFICES ASSUME TypeOK, CoveredRefsAreCurrent, NEW t \in DoneWhen,
                        OverallStatus(ledger, Coverage) \in {"covered", "weak"}
                 PROVE  \E k \in DOMAIN ledger :
                          /\ ledger[k].id \in Coverage[t].refs
                          /\ Supports(ledger[k]) \/ SelfMeasured(ledger[k])
    BY DEF PassableCoverageIsSupported
  <2>2. t \in Targets /\ t \in Required /\ t # Finish
    BY CoverageAssumption DEF Targets, Required
  <2>3. Coverage[t] = rows[t]
    BY <2>2 DEF Coverage, CoverageOf
  <2>4. rows[t].status = "covered"
    BY <2>1, <2>2, <2>3 DEF OverallStatus
  <2>5. PICK k \in DOMAIN ledger : RefsStandOn(k, t)
    BY <2>1, <2>2, <2>4 DEF CoveredRefsAreCurrent
  <2>6. PICK id : id \in TargetSupport(Prefix(k), t)
    BY <2>5 DEF RefsStandOn, CoveredBy, Covers
  <2>7. id \in Coverage[t].refs
    BY <2>3, <2>5, <2>6 DEF RefsStandOn
  <2>8. QED
    BY <2>1, <2>2, <2>6, <2>7, SupportIsInLedger
<1>2. QED
  BY <1>1, CoverageTypeCorrect, RefsAreCurrent, PTL


-----------------------------------------------------------------------------
(* The fold under verdicts.                                                *)

\* Submissions and verdicts move the ledger only as the fold does.
THEOREM VerdictsKeepTheFold == VerdictSpec => Spec
<1>1. VerdictInit => Init
  BY DEF VerdictInit
<1>2. [VerdictNext]_verdictVars => [Next]_vars
  <2>1. ASSUME NEW item \in Items, Write(item) PROVE [Next]_vars
    BY <2>1 DEF Write, Next
  <2>2. CASE Record
    BY <2>2 DEF Record, vars
  <2>3. CASE Note
    BY <2>3 DEF Note, vars
  <2>4. ASSUME NEW reason \in Reasons, Close(reason) PROVE [Next]_vars
    BY <2>4 DEF Close, vars
  <2>5. CASE UNCHANGED verdictVars
    BY <2>5 DEF verdictVars
  <2>6. QED
    BY <2>1, <2>2, <2>3, <2>4, <2>5 DEF VerdictNext
<1>3. QED
  BY <1>1, <1>2, PTL DEF VerdictSpec, Spec

\* What is proved of the fold holds under verdicts.
FoldInv == TypeOK /\ PassableCoverageIsSupported

LEMMA FoldHolds == VerdictSpec => []FoldInv
BY VerdictsKeepTheFold, CoverageTypeCorrect, PassableIsSupported, PTL DEF FoldInv

-----------------------------------------------------------------------------
(* Types.                                                                  *)

\* Every target of the projection has a row, the finish target too.
LEMMA CoverageTypes ==
  ASSUME TypeOK
  PROVE  \A t \in Targets : Coverage[t].status \in Statuses /\ Coverage[t].refs \subseteq EvidenceIds
<1>1. SUFFICES ASSUME NEW t \in Targets
               PROVE  Coverage[t].status \in Statuses /\ Coverage[t].refs \subseteq EvidenceIds
  OBVIOUS
<1>2. rows[t].status \in Statuses /\ rows[t].refs \subseteq EvidenceIds
  BY DEF TypeOK, Row
<1>3. CASE t # Finish
  BY <1>2, <1>3 DEF Coverage, CoverageOf
<1>4. CASE t = Finish
  <2>1. Coverage[t] = FinishedRow(rows[t], latestGatekeeper)
    BY <1>4 DEF Coverage, CoverageOf
  <2>2. CASE latestGatekeeper = NoGatekeeper
    BY <1>2, <2>1, <2>2 DEF FinishedRow, NoGatekeeper
  <2>3. CASE latestGatekeeper \in Gatekeeper
    BY <1>2, <2>1, <2>3 DEF FinishedRow, Gatekeeper, Statuses
  <2>4. QED
    BY <2>2, <2>3 DEF TypeOK
<1>5. QED
  BY <1>3, <1>4

\* The gaps a verdict or a coverage names are statuses of open targets.
LEMMA GapTypes ==
  ASSUME TypeOK
  PROVE  /\ {Coverage[t].status : t \in Targets} \ {"covered"} \subseteq Store!GapStatuses
         /\ UNION {Coverage[t].refs : t \in Targets} \subseteq EvidenceIds
BY CoverageTypes DEF Statuses, Store!GapStatuses

\* The constructors of the store build events.
LEMMA StoreConstructors ==
  ASSUME NEW type \in Store!EventTypes, NEW cause \in Nat
  PROVE  /\ Store!PlainEvent(type, cause) \in Store!Event
         /\ \A id \in EvidenceIds, refs \in SUBSET EvidenceIds, measured, target \in BOOLEAN :
              Store!EvidenceEvent(type, cause, id, refs, measured, target) \in Store!Event
         /\ \A status \in Store!CoverageStatuses, gaps \in SUBSET Store!GapStatuses :
              Store!CoverageEvent(cause, status, gaps) \in Store!Event
         /\ \A status \in Store!VerdictStatuses, refs \in SUBSET EvidenceIds,
               gaps \in SUBSET Store!GapStatuses, risk \in Store!RiskStates :
              Store!VerdictEvent(type, cause, status, refs, gaps, risk) \in Store!Event
<1>1. Store!PlainEvent(type, cause) \in Store!Event
  BY DEF Store!PlainEvent, Store!Event, Store!RiskStates
<1>2. Store!PlainEvent("CoverageRecomputed", cause) \in Store!Event
  BY DEF Store!PlainEvent, Store!Event, Store!RiskStates, Store!EventTypes,
         Store!EvidenceEventTypes
<1>3. \A id \in EvidenceIds, refs \in SUBSET EvidenceIds, measured, target \in BOOLEAN :
        Store!EvidenceEvent(type, cause, id, refs, measured, target) \in Store!Event
  BY <1>1 DEF Store!EvidenceEvent, Store!Event
<1>4. \A status \in Store!CoverageStatuses, gaps \in SUBSET Store!GapStatuses :
        Store!CoverageEvent(cause, status, gaps) \in Store!Event
  BY <1>2 DEF Store!CoverageEvent, Store!Event
<1>5. \A status \in Store!VerdictStatuses, refs \in SUBSET EvidenceIds,
         gaps \in SUBSET Store!GapStatuses, risk \in Store!RiskStates :
        Store!VerdictEvent(type, cause, status, refs, gaps, risk) \in Store!Event
  BY <1>1 DEF Store!VerdictEvent, Store!Event
<1>6. QED
  BY <1>1, <1>3, <1>4, <1>5

-----------------------------------------------------------------------------
(* The invariant.                                                          *)

Judged == latestGatekeeper.result # "none"

\* A verdict is noted of a GateKeeper that is in the ledger.
NotedVerdict ==
  /\ latestGatekeeper.result \in {"none", "passed", "blocked"}
  /\ \A k \in DOMAIN ledger : ledger[k].gatekeeper => Judged
  /\ lastVerdict.given => Judged
  /\ Judged => ledger # <<>>
  /\ stage # "noted" => ledger # <<>>

\* While the run is open no verdict was accepted, and what was recorded last is a coverage.
OpenStream ==
  ~closed.over => /\ ~closed.accepted
                  /\ log = <<>> \/ log[Len(log)].type = "CoverageRecomputed"

\* A passing verdict was reached on what is still on disk, and an accepted one cites accepted
\* evidence.
ClosedVerdict ==
  closed.over =>
    /\ closed.verdict.status \in Store!PassingVerdicts =>
         /\ closed.raw.given /\ closed.raw.passed /\ ~closed.raw.blockers
         /\ ~SomeBlocked /\ ~RequiredOpen
         /\ \A risk \in {closed.raw.risk, latestGatekeeper.risk} :
              /\ risk # "unmanaged"
              /\ policy = "disallow" => risk = "none"
              /\ closed.verdict.status = "passed" => risk = "none"
    /\ closed.verdict.refs = UNION {Coverage[t].refs : t \in Targets}
    /\ closed.accepted => closed.verdict.refs \subseteq Store!AcceptedEvidence(log)
    /\ closed.raw.given /\ closed.raw.passed => Judged

VerdictInv == VerdictTypeOK /\ NotedVerdict /\ OpenStream /\ ClosedVerdict

\* What is appended is at the end.
LEMMA JoinedEnd ==
  ASSUME NEW S, NEW s \in Seq(S), NEW t \in Seq(S), Len(t) > 0
  PROVE  /\ s \o t \in Seq(S)
         /\ Len(s \o t) > 0
         /\ (s \o t)[Len(s \o t)] = t[Len(t)]
OBVIOUS

\* The evidence of a submission is a sequence of events that ends with a coverage.
LEMMA EvidenceEventTypes ==
  ASSUME TypeOK, ledger # <<>>, NEW linked \in BOOLEAN, NEW n \in Nat
  PROVE  LET events == EvidenceEvents(LastItem, linked, n)
         IN  /\ events \in Seq(Store!Event)
             /\ Len(events) > 0
             /\ events[Len(events)].type = "CoverageRecomputed"
<1> DEFINE refs == IF ~LastItem.gatekeeper THEN {}
                   ELSE IF LastItem.measured THEN LastItem.refs ELSE LastItem.refs \ {LastItem.id}
           evidence(type, cause) ==
             Store!EvidenceEvent(type, cause, LastItem.id, refs, LastItem.measured, linked)
           coverage(cause) == Store!CoverageEvent(cause, OverallStatus(ledger, Coverage),
                                                  {Coverage[t].status : t \in Targets} \ {"covered"})
<1>1. LastItem \in Item
  BY LedgerTypes DEF LastItem, TypeOK
<1>2. LastItem.id \in EvidenceIds /\ LastItem.measured \in BOOLEAN /\ refs \subseteq EvidenceIds
  BY <1>1 DEF Item
<1>3. {"EvidenceSubmitted", "EvidenceAccepted", "EvidenceLinkedToTarget", "CoverageRecomputed"}
        \subseteq Store!EventTypes
  BY DEF Store!EventTypes, Store!EvidenceEventTypes
<1>4. /\ evidence("EvidenceSubmitted", 0) \in Store!Event
      /\ evidence("EvidenceAccepted", n + 1) \in Store!Event
      /\ evidence("EvidenceLinkedToTarget", n + 2) \in Store!Event
  <2>1. \A type \in Store!EventTypes, cause \in Nat : evidence(type, cause) \in Store!Event
    BY <1>2, StoreConstructors
  <2>2. 0 \in Nat /\ n + 1 \in Nat /\ n + 2 \in Nat
    OBVIOUS
  <2>3. QED
    BY <1>3, <2>1, <2>2
<1>5. OverallStatus(ledger, Coverage) \in Store!CoverageStatuses
  BY DEF OverallStatus, Store!CoverageStatuses
<1>6. \A cause \in Nat : coverage(cause) \in Store!Event
  BY <1>3, <1>5, GapTypes, StoreConstructors
<1>7. \A cause \in Nat : coverage(cause).type = "CoverageRecomputed"
  BY DEF Store!CoverageEvent, Store!PlainEvent
<1> DEFINE head == <<evidence("EvidenceSubmitted", 0), evidence("EvidenceAccepted", n + 1)>>
           last == IF linked THEN <<evidence("EvidenceLinkedToTarget", n + 2), coverage(n + 3)>>
                             ELSE <<coverage(n + 2)>>
<1>8. head \in Seq(Store!Event)
  <2> HIDE DEF evidence
  <2>1. QED
    BY <1>4
<1>9. /\ last \in Seq(Store!Event)
      /\ Len(last) > 0
      /\ last[Len(last)].type = "CoverageRecomputed"
  <2> HIDE DEF evidence, coverage
  <2>1. n + 2 \in Nat /\ n + 3 \in Nat
    OBVIOUS
  <2>2. QED
    BY <1>4, <1>6, <1>7, <2>1
<1>10. EvidenceEvents(LastItem, linked, n) = head \o last
  BY DEF EvidenceEvents
<1>11. QED
  <2> HIDE DEF head, last
  <2>1. QED
    BY <1>8, <1>9, <1>10, JoinedEnd

\* The coverage a verdict is caused by is an event of the stream.
LEMMA LatestCoverageIsThere ==
  ASSUME log \in Seq(Store!Event), OpenStream, ~closed.over
  PROVE  LatestCoverageEvent \in Nat
<1>1. CASE log = <<>>
  BY <1>1 DEF LatestCoverageEvent, Store!Has
<1>2. CASE log # <<>>
  <2>1. Store!IsLatest(log, "CoverageRecomputed", Len(log))
    BY <1>2 DEF OpenStream, Store!IsLatest
  <2>2. Len(log) \in DOMAIN log
    BY <1>2
  <2>3. Store!Has(log, "CoverageRecomputed")
    BY <2>1, <2>2 DEF Store!Has, Store!IsLatest
  <2>4. (CHOOSE k \in DOMAIN log : Store!IsLatest(log, "CoverageRecomputed", k)) \in DOMAIN log
    BY <2>1, <2>2
  <2>5. QED
    BY <2>3, <2>4 DEF LatestCoverageEvent
<1>3. QED
  BY <1>1, <1>2

\* The verdict that ends a run is an event of the store.
LEMMA EventVerdictTypes ==
  ASSUME TypeOK, NEW raw \in Raw, NEW reason \in Reasons, NEW cause \in Nat
  PROVE  /\ EventVerdict(raw, reason, cause) \in Store!Event
         /\ EventVerdict(raw, reason, cause).type = "VerdictIssued"
         /\ EventVerdict(raw, reason, cause).status = PublicStatus(raw, reason)
         /\ EventVerdict(raw, reason, cause).refs = UNION {Coverage[t].refs : t \in Targets}
<1> DEFINE refs == UNION {Coverage[t].refs : t \in Targets}
           gaps == IF reason = "crashed" THEN {} ELSE Gaps(raw)
           risk == IF policy # "disallow" /\ "managed" \in ShownRisks(raw) THEN "managed" ELSE "none"
<1>1. PublicStatus(raw, reason) \in Store!VerdictStatuses
  BY DEF PublicStatus, Store!VerdictStatuses
<1>2. refs \subseteq EvidenceIds /\ gaps \subseteq Store!GapStatuses
  BY GapTypes DEF Gaps
<1>3. risk \in Store!RiskStates
  BY DEF Store!RiskStates
<1>4. "VerdictIssued" \in Store!EventTypes
  BY DEF Store!EventTypes, Store!VerdictEventTypes
<1>5. EventVerdict(raw, reason, cause) =
        Store!VerdictEvent("VerdictIssued", cause, PublicStatus(raw, reason), refs, gaps, risk)
  BY DEF EventVerdict
<1>6. Store!VerdictEvent("VerdictIssued", cause, PublicStatus(raw, reason), refs, gaps, risk)
        \in Store!Event
  BY <1>1, <1>2, <1>3, <1>4, StoreConstructors
<1>7. QED
  BY <1>5, <1>6 DEF Store!VerdictEvent, Store!PlainEvent

-----------------------------------------------------------------------------
(* Each action keeps the invariant.                                        *)

LEMMA InitHolds == VerdictInit => VerdictInv
<1> SUFFICES ASSUME VerdictInit PROVE VerdictInv
  OBVIOUS
<1>1. TypeOK
  BY CoverageAssumption DEF VerdictInit, Init, TypeOK, Row, Statuses
<1>2. Open.verdict \in Store!Event
  <2>1. "VerdictIssued" \in Store!EventTypes
    BY DEF Store!EventTypes, Store!VerdictEventTypes
  <2>2. QED
    BY <2>1, StoreConstructors DEF Open
<1>3. VerdictTypeOK
  BY <1>1, <1>2 DEF VerdictInit, VerdictTypeOK, Open, NoRaw, Raw, Risks, Stages, Policies
<1>4. NotedVerdict
  BY DEF VerdictInit, Init, NotedVerdict, NoRaw, NoGatekeeper, Judged
<1>5. OpenStream /\ ClosedVerdict
  BY DEF VerdictInit, OpenStream, ClosedVerdict, Open
<1>6. QED
  BY <1>3, <1>4, <1>5 DEF VerdictInv

LEMMA WriteHolds ==
  ASSUME VerdictInv, TypeOK', NEW item \in Items, Write(item)
  PROVE  VerdictInv'
<1>1. VerdictTypeOK'
  BY DEF VerdictInv, VerdictTypeOK, Write, Stages
<1>2. NotedVerdict'
  <2>1. ledger \in Seq(Items) /\ ledger' = Append(ledger, item)
    BY DEF VerdictInv, VerdictTypeOK, TypeOK, Write, Collect
  <2>2. ledger' # <<>> /\ ledger'[Len(ledger')] = item
    BY <2>1
  <2>3. item.result \in {"passed", "blocked", "other"}
    BY CoverageAssumption DEF Item
  <2>4. item.gatekeeper => latestGatekeeper'.result \in {"passed", "blocked"}
    BY <2>2, <2>3, VerdictsDecide DEF Write, Collect, GatekeeperProjection
  <2>5. ~item.gatekeeper => latestGatekeeper' = latestGatekeeper
    BY DEF Write, Collect
  <2>6. \A k \in DOMAIN ledger' : ledger'[k].gatekeeper => Judged'
    <3>1. SUFFICES ASSUME NEW k \in DOMAIN ledger', ledger'[k].gatekeeper PROVE Judged'
      OBVIOUS
    <3>2. CASE k \in DOMAIN ledger
      <4>1. ledger[k].gatekeeper
        BY <2>1, <3>1, <3>2
      <4>2. Judged
        BY <3>2, <4>1 DEF VerdictInv, NotedVerdict
      <4>3. QED
        BY <2>4, <2>5, <4>2 DEF Judged
    <3>3. CASE k \notin DOMAIN ledger
      <4>1. k = Len(ledger')
        BY <2>1, <3>1, <3>3
      <4>2. QED
        BY <2>2, <2>4, <3>1, <4>1 DEF Judged
    <3>4. QED
      BY <3>2, <3>3
  <2>7. lastVerdict'.given => Judged'
    BY <2>4, <2>5 DEF VerdictInv, NotedVerdict, Judged, Write
  <2>8. QED
    BY <2>2, <2>4, <2>5, <2>6, <2>7 DEF VerdictInv, NotedVerdict, Judged
<1>3. OpenStream' /\ ClosedVerdict'
  BY DEF VerdictInv, OpenStream, ClosedVerdict, Write
<1>4. QED
  BY <1>1, <1>2, <1>3 DEF VerdictInv

\* A step that leaves the fold alone leaves what NotedVerdict says of it.
LEMMA RecordHolds ==
  ASSUME VerdictInv, Record
  PROVE  VerdictInv'
<1>1. ledger # <<>> /\ TypeOK /\ log \in Seq(Store!Event) /\ ~closed.over
  BY DEF VerdictInv, NotedVerdict, VerdictTypeOK, Record
<1>2. TypeOK'
  BY <1>1 DEF Record, vars, TypeOK
<1>3. PICK linked \in Linkings(LastItem) :
        \/ log' = log \o EvidenceEvents(LastItem, linked, Len(log)) /\ stage' = "recorded"
        \/ log' = log /\ stage' = "refused"
  BY DEF Record
<1>4. linked \in BOOLEAN
  BY <1>3 DEF Linkings
<1>5. /\ log' \in Seq(Store!Event)
      /\ log' = log \/ (log' # <<>> /\ log'[Len(log')].type = "CoverageRecomputed")
  <2>1. Len(log) \in Nat
    BY <1>1
  <2>2. CASE log' = log
    BY <1>1, <2>2
  <2>3. CASE log' = log \o EvidenceEvents(LastItem, linked, Len(log))
    BY <1>1, <1>4, <2>1, <2>3, EvidenceEventTypes, JoinedEnd
  <2>4. QED
    BY <1>3, <2>2, <2>3
<1>6. VerdictTypeOK'
  BY <1>2, <1>3, <1>5 DEF VerdictInv, VerdictTypeOK, Record, Stages
<1>7. NotedVerdict'
  BY <1>1 DEF VerdictInv, NotedVerdict, Judged, Record, vars
<1>8. OpenStream'
  BY <1>1, <1>5 DEF VerdictInv, OpenStream, Record
<1>9. ClosedVerdict'
  BY <1>1 DEF ClosedVerdict, Record
<1>10. QED
  BY <1>6, <1>7, <1>8, <1>9 DEF VerdictInv

LEMMA NoteHolds ==
  ASSUME VerdictInv, Note
  PROVE  VerdictInv'
<1>1. ledger \in Seq(Items) /\ ledger # <<>> /\ ~closed.over /\ LastItem.gatekeeper
  BY DEF VerdictInv, NotedVerdict, VerdictTypeOK, TypeOK, Note
<1>2. TypeOK'
  BY DEF VerdictInv, VerdictTypeOK, Note, vars, TypeOK
<1>3. lastVerdict' \in Raw /\ lastVerdict'.given
  BY DEF Note, Outputs
<1>4. Judged
  <2>1. Len(ledger) \in DOMAIN ledger
    BY <1>1
  <2>2. QED
    BY <1>1, <2>1 DEF VerdictInv, NotedVerdict, LastItem
<1>5. VerdictTypeOK'
  BY <1>2, <1>3 DEF VerdictInv, VerdictTypeOK, Note, Stages
<1>6. NotedVerdict'
  BY <1>1, <1>4 DEF VerdictInv, NotedVerdict, Judged, Note, vars
<1>7. OpenStream' /\ ClosedVerdict'
  BY <1>1 DEF VerdictInv, OpenStream, ClosedVerdict, Note
<1>8. QED
  BY <1>5, <1>6, <1>7 DEF VerdictInv

\* The store accepts a verdict only with refs it accepted as evidence.
LEMMA AcceptedVerdictCites ==
  ASSUME NEW s \in Seq(Store!Event), NEW requested \in Store!Event, NEW issued \in Store!Event,
         issued.type = "VerdictIssued",
         Store!AcceptedExtension(s, s \o <<requested, issued>>)
  PROVE  issued.refs \subseteq Store!AcceptedEvidence(s \o <<requested, issued>>)
<1> DEFINE after == s \o <<requested, issued>>
           prefix == SubSeq(after, 1, Len(s) + 1)
<1>1. /\ after \in Seq(Store!Event)
      /\ Len(after) = Len(s) + 2
      /\ after[Len(s) + 2] = issued
  OBVIOUS
<1>2. /\ DOMAIN prefix \subseteq DOMAIN after
      /\ \A k \in DOMAIN prefix : prefix[k] = after[k]
  BY <1>1
<1>3. Store!Accepts(prefix, issued)
  <2>1. Len(s) + 2 \in Len(s) + 1 .. Len(after)
    BY <1>1
  <2>2. Store!Accepts(SubSeq(after, 1, Len(s) + 2 - 1), after[Len(s) + 2])
    BY <2>1 DEF Store!AcceptedExtension
  <2>3. Len(s) + 2 - 1 = Len(s) + 1
    OBVIOUS
  <2>4. QED
    BY <1>1, <2>2, <2>3
<1>4. issued.refs \subseteq Store!AcceptedEvidence(prefix)
  BY <1>3 DEF Store!Accepts, Store!VerdictRefsAccepted
<1>5. Store!AcceptedEvidence(prefix) \subseteq Store!AcceptedEvidence(after)
  <2> HIDE DEF prefix, after
  <2>1. QED
    BY <1>2 DEF Store!AcceptedEvidence
<1>6. QED
  BY <1>4, <1>5

\* The public status passes only what was given, passed and not contradicted by the coverage
\* or the risks.
LEMMA PassingStatus ==
  ASSUME TypeOK, NEW raw \in Raw, NEW reason, PublicStatus(raw, reason) \in Store!PassingVerdicts
  PROVE  /\ raw.given /\ raw.passed /\ ~raw.blockers
         /\ ~SomeBlocked /\ ~RequiredOpen
         /\ \A risk \in {raw.risk, latestGatekeeper.risk} :
              /\ risk # "unmanaged"
              /\ policy = "disallow" => risk = "none"
              /\ PublicStatus(raw, reason) = "passed" => risk = "none"
<1>1. /\ raw.given /\ raw.passed /\ ~raw.blockers
      /\ ~SomeBlocked /\ ~RequiredOpen
  BY DEF PublicStatus, Store!PassingVerdicts
<1>2. raw.risk \in Risks /\ latestGatekeeper.risk \in Risks
  BY DEF Raw, TypeOK, Gatekeeper, NoGatekeeper, Risks
<1>3. \A risk \in {raw.risk, latestGatekeeper.risk} \ {"none"} :
        /\ risk # "unmanaged"
        /\ policy # "disallow"
        /\ risk = "managed" => PublicStatus(raw, reason) # "passed"
  BY DEF PublicStatus, Store!PassingVerdicts
<1>4. QED
  BY <1>1, <1>2, <1>3 DEF Risks

LEMMA CloseHolds ==
  ASSUME VerdictInv, NEW reason \in Reasons, Close(reason)
  PROVE  VerdictInv'
<1> DEFINE raw == RawFor(reason)
           issued == EventVerdict(raw, reason, Len(log) + 1)
           requested == [issued EXCEPT !.type = "VerdictRequested", !.cause = LatestCoverageEvent]
           after == log \o <<requested, issued>>
<1>1. TypeOK /\ log \in Seq(Store!Event) /\ ~closed.over
  BY DEF VerdictInv, VerdictTypeOK, Close
<1>2. raw \in Raw /\ (raw.given /\ raw.passed => Judged)
  <2>1. lastVerdict \in Raw /\ (lastVerdict.given => Judged)
    BY DEF VerdictInv, VerdictTypeOK, NotedVerdict
  <2>2. CASE reason = "aborted"
    BY <2>2 DEF RawFor, Aborted, Raw, Risks
  <2>3. CASE reason = "crashed"
    BY <2>3 DEF RawFor, NoRaw, Raw, Risks
  <2>4. CASE reason \notin {"aborted", "crashed"}
    BY <2>1, <2>4 DEF RawFor
  <2>5. QED
    BY <2>2, <2>3, <2>4
<1>3. /\ issued \in Store!Event
      /\ issued.type = "VerdictIssued"
      /\ issued.status = PublicStatus(raw, reason)
      /\ issued.refs = UNION {Coverage[t].refs : t \in Targets}
  <2>1. Len(log) + 1 \in Nat
    BY <1>1
  <2>2. QED
    BY <1>1, <1>2, <2>1, EventVerdictTypes
<1>4. requested \in Store!Event
  <2>1. LatestCoverageEvent \in Nat
    BY <1>1, LatestCoverageIsThere DEF VerdictInv
  <2>2. "VerdictRequested" \in Store!EventTypes
    BY DEF Store!EventTypes, Store!VerdictEventTypes
  <2> HIDE DEF issued
  <2>3. QED
    BY <1>3, <2>1, <2>2 DEF Store!Event
<1>5. /\ closed' = [over |-> TRUE, raw |-> raw, verdict |-> issued,
                    accepted |-> Store!AcceptedExtension(log, after)]
      /\ log' = IF closed'.accepted THEN after ELSE log
      /\ UNCHANGED <<vars, policy, stage, lastVerdict>>
  BY DEF Close
<1>6. after \in Seq(Store!Event)
  <2> HIDE DEF issued, requested
  <2>1. QED
    BY <1>1, <1>3, <1>4
<1>7. closed'.accepted => issued.refs \subseteq Store!AcceptedEvidence(after)
  <2> HIDE DEF issued, requested
  <2>1. QED
    BY <1>1, <1>3, <1>4, <1>5, AcceptedVerdictCites
<1> HIDE DEF raw, issued, requested, after
<1>8. TypeOK'
  BY <1>1, <1>5 DEF vars, TypeOK
<1>9. VerdictTypeOK'
  <2>1. closed'.accepted \in BOOLEAN
    BY <1>5 DEF Store!AcceptedExtension
  <2>2. /\ closed'.over \in BOOLEAN
        /\ closed'.raw \in Raw
        /\ closed'.verdict \in Store!Event
    BY <1>2, <1>3, <1>5
  <2>3. log' \in Seq(Store!Event)
    BY <1>1, <1>5, <1>6
  <2>4. QED
    BY <1>5, <1>8, <2>1, <2>2, <2>3 DEF VerdictInv, VerdictTypeOK
<1>10. NotedVerdict'
  BY <1>5 DEF VerdictInv, NotedVerdict, Judged, vars
<1>11. OpenStream'
  BY <1>5 DEF OpenStream
<1>12. ClosedVerdict'
  <2>1. Coverage' = Coverage
    BY <1>5 DEF Coverage, vars
  <2>2. SomeBlocked' = SomeBlocked /\ RequiredOpen' = RequiredOpen
    BY <2>1 DEF SomeBlocked, RequiredOpen
  <2>3. issued.status \in Store!PassingVerdicts =>
          /\ raw.given /\ raw.passed /\ ~raw.blockers
          /\ ~SomeBlocked /\ ~RequiredOpen
          /\ \A risk \in {raw.risk, latestGatekeeper.risk} :
               /\ risk # "unmanaged"
               /\ policy = "disallow" => risk = "none"
               /\ issued.status = "passed" => risk = "none"
    BY <1>1, <1>2, <1>3, PassingStatus
  <2>4. QED
    BY <1>2, <1>3, <1>5, <1>7, <2>1, <2>2, <2>3 DEF ClosedVerdict, Judged, vars
<1>13. QED
  BY <1>9, <1>10, <1>11, <1>12 DEF VerdictInv

LEMMA StutterHolds ==
  ASSUME VerdictInv, UNCHANGED verdictVars
  PROVE  VerdictInv'
<1>1. TypeOK'
  BY DEF VerdictInv, VerdictTypeOK, verdictVars, vars, TypeOK
<1>2. Coverage' = Coverage
  BY DEF verdictVars, vars, Coverage
<1>3. SomeBlocked' = SomeBlocked /\ RequiredOpen' = RequiredOpen
  BY <1>2 DEF SomeBlocked, RequiredOpen
<1>4. VerdictTypeOK'
  BY <1>1 DEF VerdictInv, VerdictTypeOK, verdictVars
<1>5. NotedVerdict' /\ OpenStream'
  BY DEF VerdictInv, NotedVerdict, Judged, OpenStream, verdictVars, vars
<1>6. ClosedVerdict'
  BY <1>2, <1>3 DEF VerdictInv, ClosedVerdict, Judged, verdictVars, vars
<1>7. QED
  BY <1>4, <1>5, <1>6 DEF VerdictInv

\* Wherever a submission is cut off and whatever ends the run, the invariant holds.
LEMMA VerdictInvHolds == VerdictSpec => []VerdictInv
<1>1. VerdictInit => VerdictInv
  BY InitHolds
<1>2. VerdictInv /\ TypeOK' /\ [VerdictNext]_verdictVars => VerdictInv'
  <2>1. SUFFICES ASSUME VerdictInv, TypeOK', [VerdictNext]_verdictVars PROVE VerdictInv'
    OBVIOUS
  <2>2. ASSUME NEW item \in Items, Write(item) PROVE VerdictInv'
    BY <2>1, <2>2, WriteHolds
  <2>3. CASE Record
    BY <2>1, <2>3, RecordHolds
  <2>4. CASE Note
    BY <2>1, <2>4, NoteHolds
  <2>5. ASSUME NEW reason \in Reasons, Close(reason) PROVE VerdictInv'
    BY <2>1, <2>5, CloseHolds
  <2>6. CASE UNCHANGED verdictVars
    BY <2>1, <2>6, StutterHolds
  <2>7. QED
    BY <2>1, <2>2, <2>3, <2>4, <2>5, <2>6 DEF VerdictNext
<1>3. QED
  BY <1>1, <1>2, FoldHolds, PTL DEF VerdictSpec, FoldInv

-----------------------------------------------------------------------------
(* The theorems.                                                           *)

\* The ledger, the stream, the row's verdict and the one that ends the run have their types,
\* for ledgers of any length.
THEOREM VerdictTypeCorrect == VerdictSpec => []VerdictTypeOK
BY VerdictInvHolds, PTL DEF VerdictInv

\* No run closes as passed but on a GateKeeper's uncontradicted pass, with evidence in the
\* stream for every check and no risk it may not carry, wherever a submission was cut off.
THEOREM PassesAreEarned == VerdictSpec => []PassIsEarned
<1>1. VerdictInv /\ FoldInv => PassIsEarned
  <2>1. SUFFICES ASSUME VerdictInv, FoldInv, Passes PROVE PassIsEarned
    BY DEF PassIsEarned
  <2>2. closed.over
    BY <2>1 DEF VerdictInv, OpenStream, Passes
  <2>3. /\ closed.raw.given /\ closed.raw.passed /\ ~closed.raw.blockers
        /\ ~SomeBlocked /\ ~RequiredOpen
        /\ \A risk \in {closed.raw.risk, latestGatekeeper.risk} :
             /\ risk # "unmanaged"
             /\ policy = "disallow" => risk = "none"
             /\ closed.verdict.status = "passed" => risk = "none"
    BY <2>1, <2>2 DEF VerdictInv, ClosedVerdict, Passes
  <2>4. Judged /\ ledger # <<>>
    BY <2>1, <2>2, <2>3 DEF VerdictInv, ClosedVerdict, NotedVerdict
  <2>5. GatekeeperMode => latestGatekeeper.result = "passed"
    <3>1. SUFFICES ASSUME GatekeeperMode, latestGatekeeper.result = "blocked" PROVE FALSE
      BY <2>1, <2>4 DEF VerdictInv, NotedVerdict, Judged
    <3>2. Finish \in Targets
      BY <3>1 DEF Targets
    <3>3. Coverage[Finish].status = "blocked"
      BY <3>1, <3>2 DEF Coverage, CoverageOf, FinishedRow
    <3>4. QED
      BY <2>3, <3>2, <3>3 DEF SomeBlocked
  <2>6. OverallStatus(ledger, Coverage) \in {"covered", "weak"}
    BY <2>3, <2>4 DEF OverallStatus, SomeBlocked, RequiredOpen
  <2>7. ASSUME NEW t \in DoneWhen PROVE ProvedInStream(t)
    <3>1. PICK k \in DOMAIN ledger :
            /\ ledger[k].id \in Coverage[t].refs
            /\ Supports(ledger[k]) \/ SelfMeasured(ledger[k])
      BY <2>1, <2>6 DEF FoldInv, PassableCoverageIsSupported
    <3>2. t \in Targets
      BY DEF Targets
    <3>3. UNION {Coverage[x].refs : x \in Targets} \subseteq Store!AcceptedEvidence(log)
      BY <2>1, <2>2 DEF VerdictInv, ClosedVerdict, Passes
    <3>4. Coverage[t].refs \subseteq Store!AcceptedEvidence(log)
      BY <3>2, <3>3
    <3>5. QED
      BY <3>1, <3>4 DEF ProvedInStream
  <2>8. QED
    BY <2>3, <2>5, <2>7 DEF PassIsEarned
<1>2. QED
  BY <1>1, VerdictInvHolds, FoldHolds, PTL

-----------------------------------------------------------------------------
(* Why a verdict is refused.                                               *)

\* The coverage cites only what the ledger holds.
RefsInLedger ==
  /\ \A t \in Targets : rows[t].refs \subseteq KnownIds(ledger)
  /\ latestGatekeeper # NoGatekeeper =>
       {latestGatekeeper.id} \cup latestGatekeeper.supporting \cup latestGatekeeper.others
         \subseteq KnownIds(ledger)

LEMMA RefsStayInLedger == Spec => []RefsInLedger
<1>1. Init => RefsInLedger
  BY DEF Init, RefsInLedger
<1>2. TypeOK /\ RefsInLedger /\ [Next]_vars => RefsInLedger'
  <2>1. CASE UNCHANGED vars
    BY <2>1 DEF vars, RefsInLedger
  <2>2. SUFFICES ASSUME TypeOK, RefsInLedger, NEW item \in Items, Collect(item)
                 PROVE  RefsInLedger'
    BY <2>1 DEF Next
  <2>3. /\ ledger \in Seq(Items) /\ ledger' = Append(ledger, item)
        /\ ledger' \in Seq(Items) /\ Len(ledger') \in DOMAIN ledger'
        /\ \A k \in DOMAIN ledger : k \in DOMAIN ledger' /\ ledger'[k] = ledger[k]
    BY <2>2 DEF TypeOK, Collect
  <2>4. KnownIds(ledger) \subseteq KnownIds(ledger')
    BY <2>3 DEF KnownIds
  <2> DEFINE last == ledger'[Len(ledger')]
  <2>5. /\ last.id \in KnownIds(ledger')
        /\ SupportingIds(ledger') \subseteq KnownIds(ledger')
    BY <2>3 DEF KnownIds, SupportingIds
  <2>6. ASSUME NEW t \in Targets
        PROVE  rows'[t].refs \subseteq KnownIds(ledger')
    <3>1. rows'[t] = RowAfter(rows[t], ledger', t)
      BY <2>2 DEF Collect
    <3>2. rows[t].refs \subseteq KnownIds(ledger')
      BY <2>2, <2>4 DEF RefsInLedger
    <3>3. TargetSupport(ledger', t) \subseteq KnownIds(ledger')
      BY <2>5 DEF TargetSupport
    <3>4. KeptRefs(rows[t], last.reports[t].status, TargetSupport(ledger', t))
            \subseteq KnownIds(ledger')
      BY <3>2 DEF KeptRefs
    <3>5. CitedRefs(last.id, last.reports[t].status, TargetSupport(ledger', t))
            \subseteq KnownIds(ledger')
      BY <2>5, <3>3 DEF CitedRefs
    <3>6. QED
      BY <3>1, <3>2, <3>4, <3>5 DEF RowAfter
  <2>7. CASE item.gatekeeper
    <3>1. latestGatekeeper' = GatekeeperProjection(ledger')
      BY <2>2, <2>7 DEF Collect
    <3>2. {latestGatekeeper'.id} \cup latestGatekeeper'.supporting \cup latestGatekeeper'.others
            \subseteq KnownIds(ledger')
      BY <2>5, <3>1 DEF GatekeeperProjection
    <3>3. QED
      BY <2>6, <3>2 DEF RefsInLedger
  <2>8. CASE ~item.gatekeeper
    <3>1. latestGatekeeper' = latestGatekeeper
      BY <2>2, <2>8 DEF Collect
    <3>2. QED
      BY <2>2, <2>4, <2>6, <3>1 DEF RefsInLedger
  <2>9. QED
    BY <2>7, <2>8
<1>3. QED
  BY <1>1, <1>2, CoverageTypeCorrect, PTL DEF Spec

LEMMA CoverageCitesLedger ==
  ASSUME TypeOK, RefsInLedger
  PROVE  UNION {Coverage[t].refs : t \in Targets} \subseteq KnownIds(ledger)
<1>1. SUFFICES ASSUME NEW t \in Targets PROVE Coverage[t].refs \subseteq KnownIds(ledger)
  OBVIOUS
<1>2. rows[t].refs \subseteq KnownIds(ledger)
  BY DEF RefsInLedger
<1>3. CASE t # Finish
  BY <1>2, <1>3 DEF Coverage, CoverageOf
<1>4. CASE t = Finish
  <2>1. Coverage[t] = FinishedRow(rows[t], latestGatekeeper)
    BY <1>4 DEF Coverage, CoverageOf
  <2>2. CASE latestGatekeeper = NoGatekeeper
    BY <1>2, <2>1, <2>2 DEF FinishedRow, NoGatekeeper
  <2>3. CASE latestGatekeeper # NoGatekeeper
    BY <1>2, <2>1, <2>3 DEF FinishedRow, RefsInLedger
  <2>4. QED
    BY <2>2, <2>3
<1>5. QED
  BY <1>3, <1>4

\* A rejection blocks the finish target.
LEMMA RejectionBlocksFinish ==
  ASSUME GatekeeperMode, latestGatekeeper.result = "blocked"
  PROVE  SomeBlocked
<1>1. Finish \in Targets
  BY DEF Targets
<1>2. Coverage[Finish].status = "blocked"
  BY <1>1 DEF Coverage, CoverageOf, FinishedRow
<1>3. QED
  BY <1>1, <1>2 DEF SomeBlocked

\* None of the three reasons is at hand when the verdict raw is issued over the stream.
NoReason(raw) ==
  /\ \A k \in DOMAIN ledger : ledger[k].id \in Store!AcceptedEvidence(log)
  /\ \A k \in DOMAIN log : Store!IsLatest(log, "CoverageRecomputed", k) =>
                             log[k].status = OverallStatus(ledger, Coverage)
  /\ SomeBlocked => raw.given
  /\ policy = "none" => ShownRisks(raw) = {}

\* In gatekeeper mode a verdict that passes is one the kernel would pass: both look at the same
\* risks.
LEMMA EnginesAgree ==
  ASSUME VerdictTypeOK, NotedVerdict, GatekeeperMode, NEW raw \in Raw, NEW reason,
         raw.given /\ raw.passed => Judged,
         PublicStatus(raw, reason) \in Store!PassingVerdicts,
         policy = "none" => ShownRisks(raw) = {}
  PROVE  /\ KernelPasses(raw)
         /\ PublicStatus(raw, reason) = "passed_with_residual_risk" =>
              policy # "disallow" /\ "managed" \in ShownRisks(raw)
<1>1. /\ raw.given /\ raw.passed /\ ~raw.blockers
      /\ ~SomeBlocked /\ ~RequiredOpen
      /\ \A risk \in {raw.risk, latestGatekeeper.risk} :
           /\ risk # "unmanaged"
           /\ policy = "disallow" => risk = "none"
  BY PassingStatus DEF VerdictTypeOK
<1>2. latestGatekeeper.result = "passed"
  BY <1>1, RejectionBlocksFinish DEF NotedVerdict, Judged
<1>3. ShownRisks(raw) = {raw.risk, latestGatekeeper.risk} \ {"none"}
  BY <1>2 DEF ShownRisks
<1>4. policy \in Policies
  BY DEF VerdictTypeOK
<1>5. KernelPasses(raw)
  BY <1>1, <1>3, <1>4 DEF KernelPasses, Policies
<1>6. ASSUME PublicStatus(raw, reason) = "passed_with_residual_risk"
      PROVE  policy # "disallow" /\ "managed" \in ShownRisks(raw)
  <2>1. "managed" \in {raw.risk, latestGatekeeper.risk} \ {"none"}
    BY <1>6 DEF PublicStatus
  <2>2. QED
    BY <1>1, <1>3, <2>1
<1>7. QED
  BY <1>5, <1>6

\* Of a request and of a verdict the store checks nothing but what VerdictEngine decides on.
LEMMA RequestIsPlain ==
  ASSUME NEW s, NEW e, e.type = "VerdictRequested",
         Store!CausationExists(s, e), Store!VerdictCausedByLatestCoverage(s, e)
  PROVE  Store!Accepts(s, e)
BY DEF Store!Accepts, Store!LifecycleAllowed, Store!RunEventTypes,
       Store!ClosedByLatestPassingVerdict, Store!StepCausedByLatestSource, Store!StepSource,
       Store!DecisionOpen, Store!CommitOpen, Store!EvidenceRefsAccepted,
       Store!LinkCausedByLatestEvidence, Store!CoverageGapsMatchStatus,
       Store!PassableCoverageCausedByEvidence, Store!ClosureMatchesLatestVerdict,
       Store!NextGapFromLatestVerdict, Store!RiskFromLatestVerdict, Store!VerdictRefsAccepted,
       Store!VerdictGapsMatchStatus, Store!BlockedCoverageBlocksVerdict,
       Store!PassingVerdictNeedsPassableCoverage, Store!ResidualRiskIsManaged

LEMMA VerdictIsPlain ==
  ASSUME NEW s, NEW e, e.type = "VerdictIssued",
         Store!CausationExists(s, e), Store!VerdictCausedByLatestCoverage(s, e),
         Store!VerdictRefsAccepted(s, e), Store!VerdictGapsMatchStatus(s, e),
         Store!BlockedCoverageBlocksVerdict(s, e),
         Store!PassingVerdictNeedsPassableCoverage(s, e), Store!ResidualRiskIsManaged(s, e)
  PROVE  Store!Accepts(s, e)
BY DEF Store!Accepts, Store!LifecycleAllowed, Store!RunEventTypes,
       Store!ClosedByLatestPassingVerdict, Store!StepCausedByLatestSource, Store!StepSource,
       Store!DecisionOpen, Store!CommitOpen, Store!EvidenceRefsAccepted,
       Store!LinkCausedByLatestEvidence, Store!CoverageGapsMatchStatus,
       Store!PassableCoverageCausedByEvidence, Store!ClosureMatchesLatestVerdict,
       Store!NextGapFromLatestVerdict, Store!RiskFromLatestVerdict

\* The request of a verdict names the latest coverage and is always taken.
LEMMA RequestTaken ==
  ASSUME log \in Seq(Store!Event), NEW e \in Store!Event,
         e.type = "VerdictRequested", e.cause = LatestCoverageEvent,
         OpenStream, ~closed.over
  PROVE  Store!Accepts(log, e)
<1>1. CASE log = <<>>
  <2>1. ~Store!Has(log, "CoverageRecomputed")
    BY <1>1 DEF Store!Has
  <2>2. e.cause = 0
    BY <2>1 DEF LatestCoverageEvent
  <2>3. Store!CausationExists(log, e) /\ Store!VerdictCausedByLatestCoverage(log, e)
    BY <2>1, <2>2 DEF Store!CausationExists, Store!VerdictCausedByLatestCoverage
  <2>4. QED
    BY <2>3, RequestIsPlain
<1>2. CASE log # <<>>
  <2>1. Store!IsLatest(log, "CoverageRecomputed", Len(log))
    BY <1>2 DEF OpenStream, Store!IsLatest
  <2>2. Len(log) \in DOMAIN log
    BY <1>2
  <2>3. Store!Has(log, "CoverageRecomputed")
    BY <2>1, <2>2 DEF Store!Has, Store!IsLatest
  <2>4. /\ e.cause \in DOMAIN log
        /\ Store!IsLatest(log, "CoverageRecomputed", e.cause)
    BY <2>1, <2>2, <2>3 DEF LatestCoverageEvent
  <2>5. Store!CausationExists(log, e) /\ Store!VerdictCausedByLatestCoverage(log, e)
    BY <2>4 DEF Store!CausationExists, Store!VerdictCausedByLatestCoverage
  <2>6. QED
    BY <2>5, RequestIsPlain
<1>3. QED
  BY <1>1, <1>2

\* The verdict itself is taken when it agrees with what the stream holds.
LEMMA VerdictTaken ==
  ASSUME VerdictTypeOK, NotedVerdict, OpenStream, ~closed.over, RefsInLedger, GatekeeperMode,
         NEW raw \in Raw, raw.given /\ raw.passed => Judged,
         NEW reason \in Reasons, reason = "crashed" => ~raw.given,
         NEW requested \in Store!Event, NEW issued \in Store!Event,
         requested.type = "VerdictRequested", requested.cause = LatestCoverageEvent,
         issued = EventVerdict(raw, reason, Len(log) + 1),
         NoReason(raw)
  PROVE  Store!Accepts(Append(log, requested), issued)
<1> DEFINE s == Append(log, requested)
           n == Len(log) + 1
           risk == IF policy # "disallow" /\ "managed" \in ShownRisks(raw) THEN "managed" ELSE "none"
           gaps == IF reason = "crashed" THEN {} ELSE Gaps(raw)
<1>1. /\ log \in Seq(Store!Event)
      /\ s \in Seq(Store!Event) /\ Len(s) = n /\ n \in Nat
      /\ DOMAIN s = DOMAIN log \cup {n}
      /\ s[n] = requested
      /\ \A k \in DOMAIN log : k < n /\ s[k] = log[k]
  BY DEF VerdictTypeOK
<1>2. /\ issued.type = "VerdictIssued" /\ issued.cause = n
      /\ issued.status = PublicStatus(raw, reason)
      /\ issued.refs = UNION {Coverage[t].refs : t \in Targets}
      /\ issued.gaps = gaps /\ issued.risk = risk
  BY DEF EventVerdict, Store!VerdictEvent, Store!PlainEvent
<1> HIDE DEF s, n, gaps, risk
\* The prefix up to the request looks like the stream.
<1>3. /\ \A k : Store!IsLatest(s, "CoverageRecomputed", k) <=> Store!IsLatest(log, "CoverageRecomputed", k)
      /\ Store!Has(s, "CoverageRecomputed") <=> Store!Has(log, "CoverageRecomputed")
      /\ Store!IsLatest(s, "VerdictRequested", n)
      /\ Store!AcceptedEvidence(log) \subseteq Store!AcceptedEvidence(s)
  BY <1>1 DEF Store!IsLatest, Store!Has, Store!AcceptedEvidence
<1>4. Store!CausationExists(s, issued)
  BY <1>1, <1>2 DEF Store!CausationExists
<1>5. Store!VerdictCausedByLatestCoverage(s, issued)
  <2>1. SUFFICES ASSUME Store!Has(log, "CoverageRecomputed")
                 PROVE  Store!IsLatest(log, "CoverageRecomputed", LatestCoverageEvent)
    BY <1>1, <1>2, <1>3 DEF Store!VerdictCausedByLatestCoverage
  <2>2. log # <<>>
    BY <2>1 DEF Store!Has
  <2>3. Store!IsLatest(log, "CoverageRecomputed", Len(log)) /\ Len(log) \in DOMAIN log
    BY <1>1, <2>2 DEF OpenStream, Store!IsLatest
  <2>4. QED
    BY <2>1, <2>3 DEF LatestCoverageEvent
<1>6. Store!VerdictRefsAccepted(s, issued)
  <2>1. KnownIds(ledger) \subseteq Store!AcceptedEvidence(log)
    BY DEF NoReason, KnownIds
  <2>2. QED
    BY <1>2, <1>3, <2>1, CoverageCitesLedger DEF Store!VerdictRefsAccepted, VerdictTypeOK
<1>7. PublicStatus(raw, reason) # "blocked" => ~SomeBlocked
  BY DEF NoReason, PublicStatus
<1>8. Store!VerdictGapsMatchStatus(s, issued)
  <2>1. issued.status \in Store!VerdictStatuses
    BY <1>2 DEF PublicStatus, Store!VerdictStatuses
  <2>2. "blocked" \in gaps => SomeBlocked
    BY DEF gaps, Gaps, SomeBlocked
  <2>3. PublicStatus(raw, reason) \in Store!PassingVerdicts => gaps = {}
    BY EnginesAgree DEF gaps, Gaps, NoReason
  <2>4. QED
    BY <1>2, <1>7, <2>1, <2>2, <2>3 DEF Store!VerdictGapsMatchStatus
<1>9. Store!BlockedCoverageBlocksVerdict(s, issued)
  <2>1. SUFFICES ASSUME PublicStatus(raw, reason) # "blocked",
                        NEW k \in DOMAIN log, Store!IsLatest(log, "CoverageRecomputed", k)
                 PROVE  log[k].status # "blocked"
    BY <1>1, <1>2, <1>3 DEF Store!BlockedCoverageBlocksVerdict, Store!IsLatest
  <2>2. log[k].status = OverallStatus(ledger, Coverage)
    BY <2>1 DEF NoReason
  <2>3. QED
    BY <1>7, <2>1, <2>2 DEF OverallStatus, SomeBlocked
<1>10. Store!PassingVerdictNeedsPassableCoverage(s, issued)
  <2>1. SUFFICES ASSUME PublicStatus(raw, reason) \in Store!PassingVerdicts
                 PROVE  \E k \in DOMAIN log : /\ Store!IsLatest(log, "CoverageRecomputed", k)
                                              /\ log[k].status \in Store!PassableCoverage
    BY <1>1, <1>2, <1>3 DEF Store!PassingVerdictNeedsPassableCoverage
  <2>2. raw.given /\ raw.passed /\ ~SomeBlocked /\ ~RequiredOpen
    BY <2>1, PassingStatus DEF VerdictTypeOK
  <2>3. ledger # <<>>
    BY <2>2 DEF NotedVerdict
  <2>4. PICK j \in DOMAIN log : TRUE
    <3>1. 1 \in DOMAIN ledger
      BY <2>3 DEF VerdictTypeOK, TypeOK
    <3>2. ledger[1].id \in Store!AcceptedEvidence(log)
      BY <3>1 DEF NoReason
    <3>3. QED
      BY <3>2 DEF Store!AcceptedEvidence
  <2>5. Len(log) \in DOMAIN log /\ Store!IsLatest(log, "CoverageRecomputed", Len(log))
    BY <1>1, <2>4 DEF OpenStream, Store!IsLatest
  <2>6. log[Len(log)].status = OverallStatus(ledger, Coverage)
    BY <2>5 DEF NoReason
  <2>7. OverallStatus(ledger, Coverage) \in Store!PassableCoverage
    BY <2>2, <2>3 DEF OverallStatus, SomeBlocked, RequiredOpen, Store!PassableCoverage
  <2>8. QED
    BY <2>5, <2>6, <2>7
<1>11. Store!ResidualRiskIsManaged(s, issued)
  BY <1>2, EnginesAgree DEF Store!ResidualRiskIsManaged, Store!PassingVerdicts, risk, NoReason
<1>12. QED
  BY <1>2, <1>4, <1>5, <1>6, <1>8, <1>9, <1>10, <1>11, VerdictIsPlain DEF s

\* With no reason at hand the verdict that closes the run is accepted.
LEMMA CloseExplained ==
  ASSUME VerdictInv, RefsInLedger, GatekeeperMode, NEW reason \in Reasons, Close(reason)
  PROVE  RefusalIsExplained'
<1> DEFINE raw == RawFor(reason)
           issued == EventVerdict(raw, reason, Len(log) + 1)
           requested == [issued EXCEPT !.type = "VerdictRequested", !.cause = LatestCoverageEvent]
           after == log \o <<requested, issued>>
<1>1. /\ VerdictTypeOK /\ NotedVerdict /\ OpenStream /\ ~closed.over
      /\ TypeOK /\ log \in Seq(Store!Event)
  BY DEF VerdictInv, VerdictTypeOK, Close
<1>2. /\ closed' = [over |-> TRUE, raw |-> raw, verdict |-> issued,
                    accepted |-> Store!AcceptedExtension(log, after)]
      /\ log' = IF closed'.accepted THEN after ELSE log
      /\ UNCHANGED <<vars, policy>>
  BY DEF Close
<1>3. /\ raw \in Raw
      /\ raw.given /\ raw.passed => Judged
      /\ reason = "crashed" => ~raw.given
  <2>1. lastVerdict \in Raw /\ (lastVerdict.given => Judged)
    BY <1>1 DEF VerdictTypeOK, NotedVerdict
  <2>2. CASE reason = "aborted"
    BY <2>2 DEF RawFor, Aborted, Raw, Risks
  <2>3. CASE reason = "crashed"
    BY <2>3 DEF RawFor, NoRaw, Raw, Risks
  <2>4. CASE reason \notin {"aborted", "crashed"}
    BY <2>1, <2>4 DEF RawFor
  <2>5. QED
    BY <2>2, <2>3, <2>4
<1>4. issued \in Store!Event
  <2>1. Len(log) + 1 \in Nat
    BY <1>1
  <2>2. QED
    BY <1>1, <1>3, <2>1, EventVerdictTypes
<1> HIDE DEF raw, issued
<1>5. requested \in Store!Event /\ requested.type = "VerdictRequested"
      /\ requested.cause = LatestCoverageEvent
  <2>1. LatestCoverageEvent \in Nat
    BY <1>1, LatestCoverageIsThere
  <2>2. "VerdictRequested" \in Store!EventTypes
    BY DEF Store!EventTypes, Store!VerdictEventTypes
  <2>3. QED
    BY <1>4, <2>1, <2>2 DEF Store!Event
<1> HIDE DEF requested
<1>6. SUFFICES ASSUME ~closed'.accepted PROVE ~NoReason(raw)
  <2>1. SUFFICES ASSUME ~closed'.accepted, ~NoReason(raw) PROVE RefusalIsExplained'
    BY <1>6 DEF RefusalIsExplained
  <2>2. /\ log' = log /\ ledger' = ledger /\ rows' = rows /\ policy' = policy
        /\ latestGatekeeper' = latestGatekeeper /\ closed'.raw = raw
    BY <1>2, <2>1 DEF vars
  <2>3. Coverage' = Coverage
    BY <2>2 DEF Coverage
  <2>4. SomeBlocked' = SomeBlocked
    BY <2>3 DEF SomeBlocked
  <2>5. (policy = "none" /\ ShownRisks(raw) # {}) => PolicyIsReadTwice'
    BY <2>2 DEF PolicyIsReadTwice, ShownRisks
  <2>6. CASE \E k \in DOMAIN ledger : ledger[k].id \notin Store!AcceptedEvidence(log)
    BY <2>2, <2>6 DEF RefusalIsExplained, Unrecorded
  <2>7. CASE \E k \in DOMAIN log : /\ Store!IsLatest(log, "CoverageRecomputed", k)
                                   /\ log[k].status # OverallStatus(ledger, Coverage)
    <3>1. OverallStatus(ledger, Coverage)' = OverallStatus(ledger, Coverage)
      BY <2>2, <2>3 DEF OverallStatus
    <3>2. Unrecorded'
      BY <2>2, <2>7, <3>1 DEF Unrecorded
    <3>3. QED
      BY <3>2 DEF RefusalIsExplained
  <2>8. CASE SomeBlocked /\ ~raw.given
    BY <2>2, <2>4, <2>8 DEF RefusalIsExplained
  <2>9. CASE policy = "none" /\ ShownRisks(raw) # {}
    BY <2>5, <2>9 DEF RefusalIsExplained
  <2>10. QED
    BY <2>1, <2>6, <2>7, <2>8, <2>9 DEF NoReason
<1>7. SUFFICES ASSUME NoReason(raw) PROVE Store!AcceptedExtension(log, after)
  BY <1>2, <1>6
<1>8. /\ Len(after) = Len(log) + 2
      /\ SubSeq(after, 1, Len(log)) = log
      /\ SubSeq(after, 1, Len(log) + 1) = Append(log, requested)
      /\ after[Len(log) + 1] = requested /\ after[Len(log) + 2] = issued
      /\ Len(log) \in Nat
  BY <1>1, <1>4, <1>5
<1>9. Store!Accepts(log, requested)
  BY <1>1, <1>5, RequestTaken
<1>10. Store!Accepts(Append(log, requested), issued)
  BY <1>1, <1>3, <1>4, <1>5, <1>7, VerdictTaken DEF issued
<1> HIDE DEF after
<1>11. ASSUME NEW k \in Len(log) + 1 .. Len(after)
      PROVE  Store!Accepts(SubSeq(after, 1, k - 1), after[k])
  <2>1. k = Len(log) + 1 \/ k = Len(log) + 2
    BY <1>8
  <2>2. Len(log) + 1 - 1 = Len(log) /\ Len(log) + 2 - 1 = Len(log) + 1
    BY <1>8
  <2>3. CASE k = Len(log) + 1
    <3>1. SubSeq(after, 1, k - 1) = log /\ after[k] = requested
      BY <1>8, <2>2, <2>3
    <3>2. QED
      BY <1>9, <3>1
  <2>4. CASE k = Len(log) + 2
    <3>1. SubSeq(after, 1, k - 1) = Append(log, requested) /\ after[k] = issued
      BY <1>8, <2>2, <2>4
    <3>2. QED
      BY <1>10, <3>1
  <2>5. QED
    BY <2>1, <2>3, <2>4
<1>12. QED
  BY <1>8, <1>11 DEF Store!AcceptedExtension

\* In gatekeeper mode the store refuses the verdict of an ended run only for evidence that was
\* written and not recorded, a blocked target nobody judged, or the bare policy "none".
\* (Rounds mode, without a finish target, has a fourth: a later rejection that the row has not
\* noted; the public status follows the row, the kernel sees every risk of the ledger.)
THEOREM RefusalsAreExplained == GatekeeperMode => (VerdictSpec => []RefusalIsExplained)
<1>1. SUFFICES ASSUME GatekeeperMode PROVE VerdictSpec => []RefusalIsExplained
  OBVIOUS
<1>2. VerdictInit => RefusalIsExplained
  BY DEF VerdictInit, Open, RefusalIsExplained
<1>3. VerdictInv /\ RefsInLedger /\ RefusalIsExplained /\ [VerdictNext]_verdictVars
        => RefusalIsExplained'
  <2>1. SUFFICES ASSUME VerdictInv, RefsInLedger, RefusalIsExplained, [VerdictNext]_verdictVars
                 PROVE  RefusalIsExplained'
    OBVIOUS
  <2>2. ASSUME NEW item \in Items, Write(item) PROVE RefusalIsExplained'
    BY <2>2 DEF Write, RefusalIsExplained
  <2>3. CASE Record
    BY <2>3 DEF Record, RefusalIsExplained
  <2>4. CASE Note
    BY <2>4 DEF Note, RefusalIsExplained
  <2>5. ASSUME NEW reason \in Reasons, Close(reason) PROVE RefusalIsExplained'
    BY <1>1, <2>1, <2>5, CloseExplained
  <2>6. CASE UNCHANGED verdictVars
    <3>1. /\ log' = log /\ ledger' = ledger /\ rows' = rows /\ policy' = policy
          /\ latestGatekeeper' = latestGatekeeper /\ closed' = closed
      BY <2>6 DEF verdictVars, vars
    <3>2. Coverage' = Coverage
      BY <3>1 DEF Coverage
    <3>3. /\ SomeBlocked' = SomeBlocked /\ PolicyIsReadTwice' = PolicyIsReadTwice
          /\ Unrecorded' = Unrecorded
      BY <3>1, <3>2 DEF SomeBlocked, PolicyIsReadTwice, ShownRisks, Unrecorded
    <3>4. QED
      BY <2>1, <3>1, <3>3 DEF RefusalIsExplained
  <2>7. QED
    BY <2>1, <2>2, <2>3, <2>4, <2>5, <2>6 DEF VerdictNext
<1>4. VerdictSpec => []RefsInLedger
  BY VerdictsKeepTheFold, RefsStayInLedger, PTL
<1>5. QED
  BY <1>2, <1>3, <1>4, VerdictInvHolds, PTL DEF VerdictSpec

=============================================================================
