------------------------------- MODULE Auction ------------------------------
(***************************************************************************)
(* CombinatorialAuctionVCG (platform/market_mechanism/auction_engine/      *)
(* combinatorial.py): bids on packages of items, an allocation that        *)
(* maximises the value sold, and a payment for every bid that wins.  The   *)
(* solver is external: it fails, or it returns some allocation of greatest *)
(* value that meets the constraints it was given.                          *)
(***************************************************************************)
EXTENDS Integers, Sequences, FiniteSetsExt

CONSTANTS
    Items, Bidders,
    Packages,        \* sets bid on, of items of the auction and others
    Values,          \* values offered
    Nonces,
    MaxBids          \* bound on the number of bids

ASSUME SaleAssumption == Values \subseteq Int

VARIABLES
    bids,
    stage,           \* "bidding", "model", "solved", "done", "ValueError" or
                     \* "RuntimeError"
    x,               \* the bids the primary solution takes
    payments, winners

saleVars == <<bids, stage, x, payments, winners>>

SaleInit ==
    /\ bids = <<>>
    /\ stage = "bidding"
    /\ x = {}
    /\ payments = [b \in Bidders |-> 0]
    /\ winners = {}

\* Bid refuses a value that is not positive.
PlaceBid(b, package, v, nonce) ==
    /\ stage = "bidding"
    /\ Len(bids) < MaxBids
    /\ v > 0
    /\ bids' = Append(bids, [bidder |-> b, package |-> package, value |-> v,
                             nonce |-> nonce])
    /\ UNCHANGED <<stage, x, payments, winners>>

BidHash(bid) == <<bid.package, bid.bidder, bid.nonce>>

\* __init__ with _validate_bids.
Construct ==
    /\ stage = "bidding"
    /\ stage' = IF \E i, j \in DOMAIN bids : i # j /\ BidHash(bids[i]) = BidHash(bids[j])
                THEN "ValueError" ELSE "model"
    /\ UNCHANGED <<bids, x, payments, winners>>

-----------------------------------------------------------------------------
(* The model the solver is given.                                          *)

Welfare(S) == SumFunctionOnSet([i \in DOMAIN bids |-> bids[i].value], S)

ItemConstraint_Two(S, item) ==
    Cardinality({i \in S : item \in bids[i].package}) <= 2

\* The bids taken of those that hold the item are at most one.
ItemConstraint(S, item) ==
    Cardinality({i \in S : item \in bids[i].package}) <= 1

Feasible(excluded) ==
    {S \in SUBSET (DOMAIN bids \ excluded) : \A item \in Items : ItemConstraint(S, item)}

Optimum(excluded) == Max({Welfare(S) : S \in Feasible(excluded)})

Solve ==
    /\ stage = "model"
    /\ \/ /\ \E S \in Feasible({}) : Welfare(S) = Optimum({}) /\ x' = S
          /\ stage' = "solved"
       \/ stage' = "RuntimeError" /\ UNCHANGED x     \* not OPTIMAL
    /\ UNCHANGED <<bids, payments, winners>>

-----------------------------------------------------------------------------
(* The payments.                                                           *)

BidsOf(b) == {i \in DOMAIN bids : bids[i].bidder = b}

\* _compute_exclusion_welfare.  The clone looks its variables up by name, and
\* all bids of a bidder have one name: which of them is found is left open, and
\* only that one is excluded.  It is 0 when the solver fails.
ExclusionWelfare(i) == {0} \cup {Optimum({j}) : j \in BidsOf(bids[i].bidder)}

Payment(i, exclusion) == Max({Welfare(x) - (exclusion - bids[i].value), 0})

LastOf(b) == Max(BidsOf(b) \cap x)

\* The winning bids that no later one with the same package overwrites.
Entries == {i \in x : \A j \in x : bids[j].package = bids[i].package => j <= i}

\* A later winning bid of the same bidder overwrites the payment of an earlier.
ComputeVcgPayments ==
    /\ stage = "solved"
    /\ \E e \in [x -> UNION {ExclusionWelfare(i) : i \in x}] :
        /\ \A i \in x : e[i] \in ExclusionWelfare(i)
        /\ payments' = [b \in Bidders |->
                          IF BidsOf(b) \cap x = {} THEN 0
                          ELSE Payment(LastOf(b), e[LastOf(b)])]
    /\ winners' = {<<bids[i].package, bids[i].bidder>> : i \in Entries}
    /\ stage' = "done"
    /\ UNCHANGED <<bids, x>>

SaleNext ==
    \/ \E b \in Bidders, p \in Packages, v \in Values, n \in Nonces : PlaceBid(b, p, v, n)
    \/ Construct \/ Solve \/ ComputeVcgPayments

SaleSpec == SaleInit /\ [][SaleNext]_saleVars

-----------------------------------------------------------------------------
\* No item of the auction is sold twice, and no winning bid, which is charged,
\* is missing in winners, where a bid on the same package would overwrite it:
\* unless the package holds no item of the auction, for then no constraint
\* keeps two such bids apart.
SellsEveryItemOnce ==
    stage = "done" =>
        /\ \A e, f \in winners : e[1] \cap f[1] \cap Items # {} => e = f
        /\ \A i \in x : bids[i].package \cap Items # {} =>
              <<bids[i].package, bids[i].bidder>> \in winners

\* "with VCG payments": under VCG a winner never pays more than it offered.
PaysAtMostItsBid ==
    stage = "done" =>
        \A i \in x : Cardinality(BidsOf(bids[i].bidder)) = 1 =>
            payments[bids[i].bidder] <= bids[i].value
=============================================================================
