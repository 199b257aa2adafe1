-------------------------- MODULE TransferHistory --------------------------
(***************************************************************************)
(* How processCollection learns which NFTs of a collection changed hands   *)
(* in a payment period, and when each NFT was minted                       *)
(* (requesters/chain_requester.go, http.go).  The node's transaction index *)
(* is searched twice, for sales and for transfers, page after page; the    *)
(* mints are asked from BDJuno.  Both indexes lag behind the chain, and go *)
(* on growing between two requests.                                        *)
(*                                                                         *)
(* A transaction is its position in the chain, an event is a position in   *)
(* its transaction.  The transfers that are returned are a set: they are   *)
(* sorted by time, those of one block in no order (see NftRewards).        *)
(***************************************************************************)
EXTENDS Integers, Sequences, FiniteSets

CONSTANTS
  Denoms,         \* the collections of the chain
  Collection,     \* the one that is processed
  Tokens,         \* its NFTs
  Low, High,      \* the heights found by getPeriodBlockBorders
  BlockTime,      \* the time of each block from Low to High
  PeriodStart, PeriodEnd,
  PageSize,       \* paginationLimit
  Contents,       \* the sequences of events a transaction may have
  MaxTxs          \* so many transactions are between the borders

Types == {"buy_nft", "transfer_nft"}
Event == [type : Types, denom : Denoms]
Tx    == [height : Low..High, events : Contents]

ASSUME HistoryAssumption ==
  /\ Collection \in Denoms /\ Tokens \cap Denoms = {}
  /\ Contents \subseteq Seq(Event)
  /\ Low \in Nat /\ High \in Nat /\ PeriodStart \in Nat /\ PeriodEnd \in Nat
  /\ BlockTime \in [Low..High -> Nat]
  /\ PageSize \in Nat \ {0} /\ MaxTxs \in Nat

(* BlockBorders shows that the borders enclose the period.                 *)
ASSUME BordersEnclosePeriod ==
  /\ BlockTime[Low] < PeriodStart
  /\ BlockTime[High] > PeriodEnd

VARIABLES
  chain,          \* the transactions with sales or transfers, in order
  indexed,        \* the node's index has the first so many of them
  minted,         \* the NFTs whose mint BDJuno has
  \* the locals of GetDenomNftTransferHistory and getTxsByEvents
  pc,             \* where the call is: the search for a type, or what follows
  page,
  txs,            \* the transactions the search has fetched
  fetched,        \* their number, len(txs)
  allTxs,         \* what each search found
  transfers,      \* filteredTransferEvents
  \* history variable, read by no action
  seen            \* indexed, when the call began

world  == <<chain, indexed, minted>>
search == <<page, txs, fetched>>
vars   == <<world, pc, search, allTxs, transfers, seen>>

Positions == DOMAIN chain
Time(x)   == BlockTime[chain[x].height]
NoTxs     == [t \in Types |-> {}]

Init ==
  /\ chain \in UNION {[1..n -> Tx] : n \in 0..MaxTxs}
  /\ \A x, y \in Positions : x < y => chain[x].height <= chain[y].height
  /\ indexed = 0 /\ minted = {}
  /\ pc = "idle" /\ page = 1 /\ txs = {} /\ fetched = 0
  /\ allTxs = NoTxs /\ transfers = {} /\ seen = 0

-----------------------------------------------------------------------------
(* The indexes. *)

IndexTx ==
  /\ indexed < Len(chain)
  /\ indexed' = indexed + 1
  /\ UNCHANGED <<chain, minted, pc, search, allTxs, transfers, seen>>

BDJunoMint(n) ==
  /\ n \in Tokens \ minted
  /\ minted' = minted \cup {n}
  /\ UNCHANGED <<chain, indexed, pc, search, allTxs, transfers, seen>>

-----------------------------------------------------------------------------
(* getTxsByEvents. *)

(* Mutant: the type of the event is not part of the query.                 *)
Matches_AnyType(t, x) ==
  /\ Low < chain[x].height /\ chain[x].height < High
  /\ \E i \in DOMAIN chain[x].events : chain[x].events[i].denom = Collection

(* The queries "buy_nft.denom_id" and "transfer_nft.denom_id".             *)
Matches(t, x) ==
  /\ Low < chain[x].height /\ chain[x].height < High
  /\ \E i \in DOMAIN chain[x].events :
       chain[x].events[i] = [type |-> t, denom |-> Collection]

(* What tx_search finds, in the order of the chain.                        *)
Found(t)   == {x \in 1..indexed : Matches(t, x)}
Rank(t, x) == Cardinality({y \in 1..x : Matches(t, y)})
Page(t, p) == {x \in Found(t) : (p - 1) * PageSize < Rank(t, x) /\ Rank(t, x) <= p * PageSize}

(* A page behind the last one is refused.                                  *)
PageExists(t, p) == p = 1 \/ (p - 1) * PageSize < Cardinality(Found(t))

(* Mutant: another page is asked for after the last one.                   *)
AllFetched_Late(t, n) == n > Cardinality(Found(t))

AllFetched(t, n) == n = Cardinality(Found(t))

Begin ==
  /\ pc = "idle"
  /\ pc' = "buy_nft"
  /\ seen' = indexed
  /\ UNCHANGED <<world, search, allTxs, transfers>>

(* Mutant: the next page is not the one after it.                          *)
FetchPage_SamePage(t) ==
  /\ pc = t /\ PageExists(t, page)
  /\ ~AllFetched(t, fetched + Cardinality(Page(t, page)))
  /\ txs' = txs \cup Page(t, page)
  /\ fetched' = fetched + Cardinality(Page(t, page))
  /\ UNCHANGED <<world, pc, page, allTxs, transfers, seen>>

(* A page that is not the last one.                                        *)
FetchPage(t) ==
  /\ pc = t /\ PageExists(t, page)
  /\ ~AllFetched(t, fetched + Cardinality(Page(t, page)))
  /\ txs' = txs \cup Page(t, page)
  /\ fetched' = fetched + Cardinality(Page(t, page))
  /\ page' = page + 1
  /\ UNCHANGED <<world, pc, allTxs, transfers, seen>>

(* As many as there are: the search is over.                               *)
FetchLastPage(t) ==
  /\ pc = t /\ PageExists(t, page)
  /\ AllFetched(t, fetched + Cardinality(Page(t, page)))
  /\ allTxs' = [allTxs EXCEPT ![t] = txs \cup Page(t, page)]
  /\ pc' = IF t = "buy_nft" THEN "transfer_nft" ELSE "times"
  /\ page' = 1 /\ txs' = {} /\ fetched' = 0
  /\ UNCHANGED <<world, transfers, seen>>

-----------------------------------------------------------------------------
(* GetDenomNftTransferHistory, after the searches. *)

(* Mutant: the borders do not belong to the period.                        *)
InPeriod_Strict(x) == PeriodStart < Time(x) /\ Time(x) < PeriodEnd

InPeriod(x) == PeriodStart <= Time(x) /\ Time(x) <= PeriodEnd

(* Every sale and every transfer of a transaction becomes a transfer of    *)
(* the collection, once for each search that found the transaction.        *)
Collected ==
  UNION {[tx : {x}, at : DOMAIN chain[x].events, by : {t \in Types : x \in allTxs[t]}] :
           x \in {x \in Positions : InPeriod(x)}}

(* Their times are BDJuno's or, where that has none or does not answer     *)
(* (http.go:163), those of the node's blocks, which are the same.          *)
GetTimes ==
  /\ pc = "times"
  /\ transfers' = Collected
  /\ pc' = "mints"
  /\ UNCHANGED <<world, search, allTxs, seen>>

-----------------------------------------------------------------------------
(* The mints, in processCollection. *)

(* GetChainNftMintTimestamp asks for transactions with the NFT as well as  *)
(* the collection for denom_id; a mint has one denom_id, its collection.   *)
ChainMints(n) == {m \in Tokens : {n, Collection} \subseteq {Collection}}

Return ==
  /\ pc' = "idle" /\ page' = 1 /\ txs' = {} /\ fetched' = 0
  /\ allTxs' = NoTxs /\ transfers' = {} /\ seen' = 0
  /\ UNCHANGED world

MintsKnown ==
  /\ pc = "mints"
  /\ Tokens \subseteq minted
  /\ pc' = "done"
  /\ UNCHANGED <<world, search, allTxs, transfers, seen>>

(* One that BDJuno does not have is asked from the chain, which must have  *)
(* exactly one, and the call ends with an error.                           *)
MintUnknown ==
  /\ pc = "mints"
  /\ \E n \in Tokens \ minted : Cardinality(ChainMints(n)) # 1
  /\ Return

(* The collection is processed with what was learnt.                       *)
Finish == pc = "done" /\ Return

(* A request fails, or BDJuno does not answer for the mints (http.go:53).  *)
RequestFails == pc \notin {"idle", "done"} /\ Return

Progress ==
  \/ Begin
  \/ \E t \in Types : FetchPage(t) \/ FetchLastPage(t)
  \/ GetTimes \/ MintsKnown \/ MintUnknown \/ Finish

Index == IndexTx \/ \E n \in Tokens : BDJunoMint(n)

Next == Index \/ Progress \/ RequestFails

Spec == Init /\ [][Next]_vars

(* The worker tries again on every tick; the indexes get to everything.    *)
FairSpec == Spec /\ WF_vars(Progress) /\ WF_vars(Index)
-----------------------------------------------------------------------------
(* Properties. *)

TypeOK ==
  /\ chain \in Seq(Tx) /\ indexed \in 0..Len(chain) /\ minted \in SUBSET Tokens
  /\ pc \in {"idle", "times", "mints", "done"} \cup Types
  /\ page \in Nat \ {0} /\ txs \in SUBSET (1..indexed)
  /\ fetched \in 0..Len(chain)
  /\ allTxs \in [Types -> SUBSET (1..indexed)]
  /\ transfers \in SUBSET [tx : Positions, at : Nat, by : Types]
  /\ seen \in 0..indexed

OfCollection(x, i) == chain[x].events[i].denom = Collection

(* Whatever was indexed when the call began and happened in the period is  *)
(* found, although pages are counted while the index grows ("all pages     *)
(* fetched", chain_requester.go:237).                                      *)
NothingMissed ==
  pc \in {"mints", "done"} =>
    \A x \in 1..seen : \A i \in DOMAIN chain[x].events :
      OfCollection(x, i) /\ Time(x) \in PeriodStart..PeriodEnd =>
        \E e \in transfers : e.tx = x /\ e.at = i

(* The transaction has no sale and transfer of the collection together:    *)
(* both searches would find it.  It has no event of another collection,    *)
(* which would be taken for one of this (chain_requester.go:327).          *)
OneType(x)       == \A i, j \in DOMAIN chain[x].events : chain[x].events[i].type = chain[x].events[j].type
OneCollection(x) == \A i \in DOMAIN chain[x].events : OfCollection(x, i)

(* No page has a transaction that an earlier one had, no transfer is       *)
(* returned twice, and none that is not the collection's.                  *)
NothingTwice ==
  /\ fetched = Cardinality(txs)
  /\ \A d, e \in transfers : OneType(d.tx) /\ d.tx = e.tx /\ d.at = e.at => d = e
  /\ \A e \in transfers :
       /\ \E i \in DOMAIN chain[e.tx].events : OfCollection(e.tx, i)
       /\ OneCollection(e.tx) => OfCollection(e.tx, e.at)

(* Once requests no longer fail, the history is known again and again:     *)
(* every search comes to its last page, and BDJuno to every mint.  If      *)
(* BDJuno never does, it does not hold: asking the chain ("Getting it from *)
(* chain..", pay.go:352) finds no mint.                                    *)
HistoryKnown == <>[][RequestFails => MintUnknown]_vars => []<>(pc = "done")
=============================================================================
