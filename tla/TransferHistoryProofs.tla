----------------------- MODULE TransferHistoryProofs -----------------------
(***************************************************************************)
(* Proofs about TransferHistory, for any chain, page size and period: a    *)
(* search that counts pages while the index grows misses nothing that was  *)
(* there when the call began, and has nothing twice.                       *)
(***************************************************************************)
EXTENDS TransferHistory, FiniteSetTheorems, TLAPS

(* What a search has fetched are matches of the pages before this one, so  *)
(* that the next page has no transaction of an earlier one.                *)
Paged ==
  /\ IsFiniteSet(txs) /\ fetched = Cardinality(txs)
  /\ pc \in Types => /\ txs \subseteq Found(pc)
                     /\ \A x \in txs : Rank(pc, x) <= (page - 1) * PageSize
  /\ pc \notin Types => page = 1 /\ txs = {}

(* The searches that are over.                                             *)
Over == CASE pc = "transfer_nft"              -> {"buy_nft"}
          [] pc \in {"times", "mints", "done"} -> Types
          [] OTHER                            -> {}

(* They found matches only, and all that were indexed at the beginning.    *)
Searched ==
  /\ \A t \in Types : \A x \in allTxs[t] : Matches(t, x)
  /\ \A t \in Over : \A x \in 1..seen : Matches(t, x) => x \in allTxs[t]

Returned == transfers = IF pc \in {"mints", "done"} THEN Collected ELSE {}

IInv == TypeOK /\ Paged /\ Searched /\ Returned

-----------------------------------------------------------------------------
(* The period lies strictly between the borders.                           *)
LEMMA PeriodBetweenBorders ==
  ASSUME TypeOK, NEW x \in Positions, Time(x) \in PeriodStart..PeriodEnd
  PROVE  Low < chain[x].height /\ chain[x].height < High
<1>1. chain[x].height \in Low..High
  <2>1. chain[x] \in Tx
    BY DEF TypeOK, Positions
  <2> QED
    BY <2>1 DEF Tx
<1>2. BlockTime[chain[x].height] \in Nat
  BY <1>1, HistoryAssumption
<1>3. chain[x].height # Low /\ chain[x].height # High
  BY <1>2, HistoryAssumption, BordersEnclosePeriod DEF Time
<1> QED
  BY <1>1, <1>3, HistoryAssumption

LEMMA InvInit == Init => IInv
<1> SUFFICES ASSUME Init PROVE IInv
  OBVIOUS
<1>1. PICK n \in 0..MaxTxs : chain \in [1..n -> Tx]
  BY DEF Init
<1>2. chain \in Seq(Tx) /\ Len(chain) = n
  BY <1>1, HistoryAssumption
<1>3. TypeOK
  BY <1>2, HistoryAssumption DEF Init, TypeOK, NoTxs, Types
<1>4. Paged
  BY FS_EmptySet DEF Init, Paged, Types
<1>5. Searched /\ Returned
  BY DEF Init, Searched, Returned, NoTxs, Over, Types
<1> QED
  BY <1>3, <1>4, <1>5 DEF IInv

(* A rank is a number.                                                     *)
LEMMA RankNat ==
  ASSUME NEW t, NEW x \in Nat
  PROVE  Rank(t, x) \in Nat
<1>1. IsFiniteSet(1..x)
  BY FS_Interval
<1>2. IsFiniteSet({y \in 1..x : Matches(t, y)})
  BY <1>1, FS_Subset
<1> QED
  BY <1>2, FS_CardinalityType DEF Rank

(* What the pages up to this one have together.                            *)
LEMMA PageAdds ==
  ASSUME IInv, NEW t \in Types, pc = t
  PROVE  LET all == txs \cup Page(t, page) IN
         /\ all \subseteq Found(t) /\ Found(t) \subseteq 1..indexed
         /\ IsFiniteSet(Found(t)) /\ IsFiniteSet(all)
         /\ fetched + Cardinality(Page(t, page)) = Cardinality(all)
         /\ Cardinality(all) \in 0..Len(chain)
         /\ \A x \in all : Rank(t, x) <= page * PageSize
<1> DEFINE all == txs \cup Page(t, page)
<1> USE DEF IInv
<1>1. Found(t) \subseteq 1..indexed /\ Page(t, page) \subseteq Found(t)
  BY DEF Found, Page
<1>2. txs \subseteq Found(t) /\ IsFiniteSet(txs) /\ fetched = Cardinality(txs)
  BY DEF Paged
<1>3. indexed \in Nat /\ Len(chain) \in Nat /\ indexed <= Len(chain) /\ page \in Nat \ {0}
  BY DEF TypeOK
<1>4. IsFiniteSet(1..indexed) /\ Cardinality(1..indexed) = indexed
  BY <1>3, FS_Interval
<1>5. IsFiniteSet(Found(t)) /\ IsFiniteSet(Page(t, page)) /\ IsFiniteSet(all)
  BY <1>1, <1>2, <1>4, FS_Subset, FS_Union
<1>6. txs \cap Page(t, page) = {}
  <2> SUFFICES ASSUME NEW x \in txs, x \in Page(t, page) PROVE FALSE
    OBVIOUS
  <2>1. Rank(t, x) \in Nat
    BY <1>1, <1>3, RankNat DEF Page, Found
  <2>2. Rank(t, x) <= (page - 1) * PageSize
    BY DEF Paged
  <2>3. (page - 1) * PageSize < Rank(t, x)
    BY DEF Page
  <2>4. (page - 1) * PageSize \in Int
    BY <1>3, HistoryAssumption
  <2> QED
    BY <2>1, <2>2, <2>3, <2>4
<1>7. Cardinality(all) = Cardinality(txs) + Cardinality(Page(t, page))
  <2>1. Cardinality(all) = Cardinality(txs) + Cardinality(Page(t, page))
                             - Cardinality(txs \cap Page(t, page))
    BY <1>2, <1>5, FS_Union
  <2>2. Cardinality(txs \cap Page(t, page)) = 0
    BY <1>6, FS_EmptySet
  <2>3. Cardinality(txs) \in Nat /\ Cardinality(Page(t, page)) \in Nat
    BY <1>2, <1>5, FS_CardinalityType
  <2> HIDE DEF all
  <2> QED
    BY <2>1, <2>2, <2>3
<1>8. Cardinality(all) <= indexed /\ Cardinality(all) \in Nat
  BY <1>1, <1>2, <1>4, <1>5, FS_Subset, FS_CardinalityType
<1>9. ASSUME NEW x \in all PROVE Rank(t, x) <= page * PageSize
  <2>1. Rank(t, x) \in Nat
    BY <1>1, <1>2, <1>3, RankNat
  <2>2. CASE x \in Page(t, page)
    BY <2>2 DEF Page
  <2>3. CASE x \in txs
    <3>1. Rank(t, x) <= (page - 1) * PageSize
      BY <2>3 DEF Paged
    <3>2. (page - 1) * PageSize = page * PageSize - PageSize
      BY <1>3, HistoryAssumption
    <3>3. page * PageSize \in Nat
      BY <1>3, HistoryAssumption
    <3> QED
      BY <2>1, <3>1, <3>2, <3>3, HistoryAssumption
  <2> QED
    BY <2>2, <2>3
<1> QED
  BY <1>1, <1>2, <1>3, <1>5, <1>7, <1>8, <1>9

-----------------------------------------------------------------------------
(* The index grows, and nothing that was found is lost by it.              *)
LEMMA IndexStep == ASSUME IInv, Index PROVE IInv'
<1> USE DEF IInv
<1>1. UNCHANGED <<chain, pc, search, allTxs, transfers, seen>>
      /\ indexed' \in indexed..Len(chain) /\ minted' \in SUBSET Tokens
  <2>1. CASE IndexTx
    BY <2>1 DEF IndexTx, TypeOK
  <2>2. ASSUME NEW n \in Tokens, BDJunoMint(n) PROVE <1>1!1 /\ <1>1!2
    BY <2>2 DEF BDJunoMint, TypeOK
  <2> QED
    BY <2>1, <2>2 DEF Index
<1>2. 1..indexed \subseteq 1..indexed'
  BY <1>1 DEF TypeOK
<1>3. TypeOK'
  BY <1>1, <1>2 DEF TypeOK, search, Positions
<1>4. Found(pc) \subseteq Found(pc)'
  BY <1>1, <1>2 DEF Found, Matches
<1>5. Paged'
  BY <1>1, <1>4 DEF Paged, search, Rank, Matches
<1>6. Searched' /\ Returned'
  BY <1>1 DEF Searched, Returned, Over, Matches, Collected, InPeriod, Time, Positions
<1> QED
  BY <1>3, <1>5, <1>6

(* A call that ends leaves the state of the next one.                      *)
LEMMA ReturnStep == ASSUME IInv, Return PROVE IInv'
<1>1. TypeOK'
  BY DEF IInv, TypeOK, Return, world, NoTxs, Positions
<1>2. Paged'
  BY FS_EmptySet DEF Paged, Return, Types
<1>3. Searched' /\ Returned'
  BY DEF Searched, Returned, Return, NoTxs, Over, Types
<1> QED
  BY <1>1, <1>2, <1>3 DEF IInv

LEMMA FetchStep ==
  ASSUME IInv, NEW t \in Types, FetchPage(t)
  PROVE  IInv'
<1> DEFINE all == txs \cup Page(t, page)
<1>1. /\ pc = t /\ pc' = t /\ txs' = all /\ page' = page + 1
      /\ fetched' = fetched + Cardinality(Page(t, page))
      /\ UNCHANGED <<world, allTxs, transfers, seen>>
  BY DEF FetchPage
<1>2. /\ all \subseteq Found(t) /\ Found(t) \subseteq 1..indexed /\ IsFiniteSet(all)
      /\ fetched' = Cardinality(all) /\ Cardinality(all) \in 0..Len(chain)
      /\ \A x \in all : Rank(t, x) <= page * PageSize
  BY <1>1, PageAdds
<1> HIDE DEF all
<1>3. TypeOK'
  BY <1>1, <1>2 DEF IInv, TypeOK, world, Positions
<1>4. Found(t)' = Found(t) /\ \A x : Rank(t, x)' = Rank(t, x)
  BY <1>1 DEF Found, Rank, Matches, world
<1>5. page' - 1 = page
  BY <1>1 DEF IInv, TypeOK
<1>6. Paged'
  BY <1>1, <1>2, <1>4, <1>5 DEF Paged
<1>7. Searched' /\ Returned'
  BY <1>1 DEF IInv, Searched, Returned, Over, Matches, Types, world
<1> QED
  BY <1>3, <1>6, <1>7 DEF IInv

(* As many transactions as there are, and none twice: that is all of them. *)
LEMMA FetchLastStep ==
  ASSUME IInv, NEW t \in Types, FetchLastPage(t)
  PROVE  IInv'
<1> DEFINE all == txs \cup Page(t, page)
<1>1. /\ pc = t /\ pc' = IF t = "buy_nft" THEN "transfer_nft" ELSE "times"
      /\ allTxs' = [allTxs EXCEPT ![t] = all]
      /\ page' = 1 /\ txs' = {} /\ fetched' = 0
      /\ UNCHANGED <<world, transfers, seen>>
  BY DEF FetchLastPage
<1>2. /\ all \subseteq Found(t) /\ Found(t) \subseteq 1..indexed
      /\ IsFiniteSet(Found(t)) /\ IsFiniteSet(all)
      /\ fetched + Cardinality(Page(t, page)) = Cardinality(all)
  BY <1>1, PageAdds
<1>3. Cardinality(all) = Cardinality(Found(t))
  BY <1>2 DEF FetchLastPage, AllFetched
<1>4. all = Found(t)
  BY <1>2, <1>3, FS_Subset
<1> HIDE DEF all
<1>5. allTxs \in [Types -> SUBSET (1..indexed)] /\ allTxs[t]' = Found(t)
      /\ \A u \in Types \ {t} : allTxs[u]' = allTxs[u]
  BY <1>1, <1>4 DEF IInv, TypeOK
<1>6. TypeOK'
  <2>1. allTxs' \in [Types -> SUBSET (1..indexed)]
    BY <1>1, <1>2, <1>4, <1>5
  <2>2. Len(chain) \in Nat
    BY DEF IInv, TypeOK
  <2> QED
    BY <1>1, <2>1, <2>2 DEF IInv, TypeOK, world, Positions, Types
<1>7. Paged'
  <2>1. page' = 1 /\ txs' = {} /\ fetched' = 0
    BY <1>1
  <2>2. IsFiniteSet({}) /\ Cardinality({}) = 0
    BY FS_EmptySet
  <2> QED
    BY <2>1, <2>2 DEF Paged
<1>8. Searched'
  <2>1. \A u, x : Matches(u, x)' = Matches(u, x)
    BY <1>1 DEF Matches, world
  <2>2. \A x \in Found(t) : Matches(t, x)
    BY DEF Found
  <2>3. \A x \in 1..seen : Matches(t, x) => x \in Found(t)
    BY DEF IInv, TypeOK, Found
  <2>4. Over' \subseteq Over \cup {t}
    BY <1>1 DEF Over, Types
  <2>5. seen' = seen /\ Over' \subseteq Types
    BY <1>1 DEF Over, Types
  <2> QED
    BY <1>5, <2>1, <2>2, <2>3, <2>4, <2>5 DEF IInv, Searched
<1>9. Returned'
  BY <1>1 DEF IInv, Returned, Types
<1> QED
  BY <1>6, <1>7, <1>8, <1>9 DEF IInv

LEMMA InvStep == IInv /\ [Next]_vars => IInv'
<1> SUFFICES ASSUME IInv, [Next]_vars PROVE IInv'
  OBVIOUS
<1>1. CASE Index
  BY <1>1, IndexStep
<1>2. CASE Begin
  <2> USE <1>2 DEF IInv
  <2>1. TypeOK'
    BY DEF Begin, TypeOK, world, search, Positions, Types
  <2>2. Paged'
    BY DEF Begin, Paged, world, search, Types
  <2>3. Searched' /\ Returned'
    BY DEF Begin, Searched, Returned, Over, Matches, world, Types
  <2> QED
    BY <2>1, <2>2, <2>3
<1>3. ASSUME NEW t \in Types, FetchPage(t) \/ FetchLastPage(t) PROVE IInv'
  BY <1>3, FetchStep, FetchLastStep
<1>4. CASE GetTimes
  <2> USE <1>4 DEF IInv
  <2>1. Collected \in SUBSET [tx : Positions, at : Nat, by : Types]
    <3> SUFFICES ASSUME NEW x \in Positions
                 PROVE  DOMAIN chain[x].events \subseteq Nat
      BY DEF Collected
    <3>1. chain[x] \in Tx
      BY DEF TypeOK, Positions
    <3>2. chain[x].events \in Seq(Event)
      BY <3>1, HistoryAssumption DEF Tx
    <3> QED
      BY <3>2
  <2>2. TypeOK'
    BY <2>1 DEF GetTimes, TypeOK, world, search, Positions, Types
  <2>3. Paged'
    BY DEF GetTimes, Paged, world, search, Types
  <2>4. Searched' /\ Returned'
    BY DEF GetTimes, Searched, Returned, Over, Matches, world, Types, Collected, InPeriod, Time, Positions
  <2> QED
    BY <2>2, <2>3, <2>4
<1>5. CASE MintsKnown
  <2> USE <1>5 DEF IInv
  <2>1. TypeOK'
    BY DEF MintsKnown, TypeOK, world, search, Positions, Types
  <2>2. Paged'
    BY DEF MintsKnown, Paged, world, search, Types
  <2>3. Searched' /\ Returned'
    BY DEF MintsKnown, Searched, Returned, Over, Matches, world, Types, Collected, InPeriod, Time, Positions
  <2> QED
    BY <2>1, <2>2, <2>3
<1>6. CASE MintUnknown \/ Finish \/ RequestFails
  BY <1>6, ReturnStep DEF MintUnknown, Finish, RequestFails
<1>7. CASE UNCHANGED vars
  <2> USE <1>7 DEF IInv
  <2>1. TypeOK'
    BY DEF vars, TypeOK, world, search, Positions
  <2>2. Paged'
    BY DEF vars, Paged, world, search, Found, Rank, Matches
  <2>3. Searched' /\ Returned'
    BY DEF vars, Searched, Returned, Over, Matches, world, Collected, InPeriod, Time, Positions
  <2> QED
    BY <2>1, <2>2, <2>3
<1> QED
  BY <1>1, <1>2, <1>3, <1>4, <1>5, <1>6, <1>7 DEF Next, Progress

-----------------------------------------------------------------------------
(* The state of the searches is well typed; no more transactions are       *)
(* counted than there are.                                                 *)
THEOREM TypeCorrect == Spec => []TypeOK
<1>1. Spec => []IInv
  BY InvInit, InvStep, PTL DEF Spec
<1>2. IInv => TypeOK
  BY DEF IInv
<1> QED
  BY <1>1, <1>2, PTL

LEMMA AllFound == IInv => NothingMissed
<1> SUFFICES ASSUME IInv, pc \in {"mints", "done"}, NEW x \in 1..seen,
                    NEW i \in DOMAIN chain[x].events, OfCollection(x, i),
                    Time(x) \in PeriodStart..PeriodEnd
             PROVE  \E e \in transfers : e.tx = x /\ e.at = i
  BY DEF NothingMissed
<1>1. x \in Positions
  BY DEF IInv, TypeOK, Positions
<1>2. PICK t \in Types : chain[x].events[i] = [type |-> t, denom |-> Collection]
  <2>1. chain[x] \in Tx
    BY <1>1 DEF IInv, TypeOK, Positions
  <2>2. chain[x].events \in Seq(Event)
    BY <2>1, HistoryAssumption DEF Tx
  <2>3. chain[x].events[i] \in Event
    BY <2>2
  <2> QED
    BY <2>3 DEF Event, OfCollection
<1>3. Matches(t, x)
  BY <1>1, <1>2, PeriodBetweenBorders DEF Matches, IInv
<1>4. x \in allTxs[t]
  BY <1>3 DEF IInv, Searched, Over, Types
<1>5. InPeriod(x)
  BY DEF InPeriod
<1>6. [tx |-> x, at |-> i, by |-> t] \in transfers
  BY <1>1, <1>4, <1>5 DEF IInv, Returned, Collected
<1> QED
  BY <1>6

(* No transfer that was indexed when the call began is missed, for any     *)
(* chain, page size and growth of the index, if the borders enclose the    *)
(* period.                                                                 *)
THEOREM HistoryComplete == Spec => []NothingMissed
<1>1. Spec => []IInv
  BY InvInit, InvStep, PTL DEF Spec
<1> QED
  BY <1>1, AllFound, PTL

LEMMA OnlyOnce == IInv => NothingTwice
<1> SUFFICES ASSUME IInv PROVE NothingTwice
  OBVIOUS
<1>1. fetched = Cardinality(txs)
  BY DEF IInv, Paged
<1>2. ASSUME NEW e \in transfers
      PROVE  /\ e.tx \in Positions /\ e.at \in DOMAIN chain[e.tx].events /\ e.by \in Types
             /\ e = [tx |-> e.tx, at |-> e.at, by |-> e.by]
             /\ Matches(e.by, e.tx)
  <2>1. e \in Collected
    BY DEF IInv, Returned
  <2>2. PICK x \in Positions :
          e \in [tx : {x}, at : DOMAIN chain[x].events, by : {t \in Types : x \in allTxs[t]}]
    BY <2>1 DEF Collected
  <2> QED
    BY <2>2 DEF IInv, Searched
<1>3. ASSUME NEW e \in transfers
      PROVE  \E i \in DOMAIN chain[e.tx].events :
               chain[e.tx].events[i].type = e.by /\ OfCollection(e.tx, i)
  <2>1. Matches(e.by, e.tx)
    BY <1>2
  <2>2. PICK i \in DOMAIN chain[e.tx].events :
          chain[e.tx].events[i] = [type |-> e.by, denom |-> Collection]
    BY <2>1 DEF Matches
  <2> QED
    BY <2>2 DEF OfCollection
<1>4. ASSUME NEW d \in transfers, NEW e \in transfers,
             OneType(d.tx), d.tx = e.tx, d.at = e.at
      PROVE  d = e
  <2>1. d.by = e.by
    BY <1>3, <1>4 DEF OneType
  <2>2. d = [tx |-> d.tx, at |-> d.at, by |-> d.by] /\ e = [tx |-> e.tx, at |-> e.at, by |-> e.by]
    BY <1>2
  <2> QED
    BY <1>4, <2>1, <2>2
<1>5. ASSUME NEW e \in transfers, OneCollection(e.tx)
      PROVE  OfCollection(e.tx, e.at)
  BY <1>2, <1>5 DEF OneCollection
<1> QED
  BY <1>1, <1>3, <1>4, <1>5 DEF NothingTwice

(* No transaction is on two pages of a search, no transfer is returned     *)
(* twice unless its transaction also has one of the other type, and none   *)
(* is of a transaction without an event of the collection.                 *)
THEOREM HistoryOnce == Spec => []NothingTwice
<1>1. Spec => []IInv
  BY InvInit, InvStep, PTL DEF Spec
<1> QED
  BY <1>1, OnlyOnce, PTL
=============================================================================
