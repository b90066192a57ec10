------------------------------ MODULE Treasury ------------------------------
(***************************************************************************)
(* The bank of wat/treasury/: a value holding every paper and real         *)
(* position, the proposers' track records, the asset balances and the two  *)
(* id counters.  Each helper of treasury.wat takes a Treasury and returns  *)
(* the next one, so each helper is one action here.                        *)
(*                                                                         *)
(* Money is in whole dollars, units in hundredths (UnitScale), fee rates   *)
(* in basis points; f64 rounding is the floor of \div.  A position keeps   *)
(* the fields that some later step reads or a property mentions: to-asset  *)
(* and entry-price are written once and never read again.                  *)
(***************************************************************************)
EXTENDS Integers, FiniteSets, Functions

CONSTANTS
    Owner,            \* broker slot indices
    Asset,            \* names a request may carry, listed in balances or not
    Price,            \* dollars per unit
    Candle,           \* candle indices callers pass
    Term,             \* values callers pass for deadline-candles
    InitialBalances,  \* the ledger given to Treasury::fresh
    EntryFee,         \* basis points
    ExitFee,          \* basis points
    PaperAmount,      \* the paper reference amount, $10,000 in the code
    RealAmount,       \* the cap on a real position, $50 in the code
    GateSubmissions,  \* papers a proposer must have submitted, 50 in the code
    MaxPapers,        \* bound of the model on nextPaperId
    MaxReals          \* bound of the model on nextRealId

ASSUME InputsAssumption ==
    /\ Price \subseteq Nat \ {0}
    /\ Candle \subseteq Nat
    /\ Term \subseteq Nat

ASSUME LedgerAssumption ==
    /\ DOMAIN InitialBalances \subseteq Asset
    /\ InitialBalances \in [DOMAIN InitialBalances -> Nat]

ASSUME RatesAssumption ==
    /\ EntryFee \in 0..10000
    /\ ExitFee \in 0..10000
    /\ PaperAmount \in Nat
    /\ RealAmount \in Nat \ {0}
    /\ GateSubmissions \in Nat \ {0}

ASSUME BoundsAssumption == MaxPapers \in Nat /\ MaxReals \in Nat

VARIABLES
    papers,           \* paper id -> position
    reals,            \* real id -> position, a separate id space
    proposerRecords,  \* owner -> track record, for owners that have one
    balances,         \* asset -> dollars
    nextPaperId,
    nextRealId

vars == <<papers, reals, proposerRecords, balances, nextPaperId, nextRealId>>

-----------------------------------------------------------------------------
(* Values *)

Active == [kind |-> "Active", residue |-> 0]
Grace(residue) == [kind |-> "Grace", residue |-> residue]
Violence == [kind |-> "Violence", residue |-> 0]

PositionState ==
    {s \in [kind : {"Active", "Grace", "Violence"}, residue : Nat] :
       s.kind = "Grace" <=> s.residue > 0}

Position ==
    [owner : Owner, fromAsset : Asset, amount : Nat, units : Nat,
     entryCandle : Nat, deadline : Nat, state : PositionState]

ProposerRecord ==
    [paperSubmitted : Nat, paperSurvived : Nat, paperFailed : Nat,
     paperGraceResidue : Nat, realSubmitted : Nat, realSurvived : Nat,
     realFailed : Nat, realGraceResidue : Nat, realViolenceLoss : Nat]

FreshRecord ==
    [paperSubmitted |-> 0, paperSurvived |-> 0, paperFailed |-> 0,
     paperGraceResidue |-> 0, realSubmitted |-> 0, realSurvived |-> 0,
     realFailed |-> 0, realGraceResidue |-> 0, realViolenceLoss |-> 0]

\* The record of owner o, or a fresh one when there is none.
RecordOf(o) ==
    IF o \in DOMAIN proposerRecords THEN proposerRecords[o] ELSE FreshRecord

\* HashMap assoc: m with key k bound to v.
Assoc(m, k, v) ==
    [x \in DOMAIN m \cup {k} |-> IF x = k THEN v ELSE m[x]]

UnitScale == 100
Fee(value, rate) == (value * rate) \div 10000

\* What a position of this amount acquires at this price.
UnitsAt(amount, price) ==
    ((amount - Fee(amount, EntryFee)) * UnitScale) \div price

\* What leaving position p at this price would realize after the exit fee.
ResidueAt(p, price) ==
    LET value == (p.units * price) \div UnitScale
    IN  value - p.amount - Fee(value, ExitFee)

Opened(owner, from, amount, price, candle, term) ==
    [owner |-> owner, fromAsset |-> from, amount |-> amount,
     units |-> UnitsAt(amount, price), entryCandle |-> candle,
     deadline |-> candle + term, state |-> Active]

-----------------------------------------------------------------------------
(* Operations *)

Init ==
    /\ papers = [id \in {} |-> {}]
    /\ reals = [id \in {} |-> {}]
    /\ proposerRecords = [o \in {} |-> {}]
    /\ balances = InitialBalances
    /\ nextPaperId = 0
    /\ nextRealId = 0

IssuePaper(owner, from, price, candle, term) ==
    /\ nextPaperId < MaxPapers
    /\ papers' = Assoc(papers, nextPaperId,
                       Opened(owner, from, PaperAmount, price, candle, term))
    /\ proposerRecords' =
         Assoc(proposerRecords, owner,
               [RecordOf(owner) EXCEPT !.paperSubmitted = @ + 1])
    /\ nextPaperId' = nextPaperId + 1
    /\ UNCHANGED <<reals, balances, nextRealId>>

\* Variant: a survival rate of exactly one half passes.
GateNotStrict(record) ==
    LET resolved == record.paperSurvived + record.paperFailed
    IN  /\ record.paperSubmitted >= GateSubmissions
        /\ resolved > 0 /\ 2 * record.paperSurvived >= resolved

GatePredicate(record) ==
    LET resolved == record.paperSurvived + record.paperFailed
    IN  /\ record.paperSubmitted >= GateSubmissions
        /\ resolved > 0 /\ 2 * record.paperSurvived > resolved

\* The proposer is proven and the treasury holds some of the asset.
RealAllowed(owner, from) ==
    /\ owner \in DOMAIN proposerRecords
    /\ GatePredicate(proposerRecords[owner])
    /\ from \in DOMAIN balances
    /\ balances[from] > 0

RealSize(balance) == IF balance < RealAmount THEN balance ELSE RealAmount

\* Variant: the cap leaves the ledger, whatever the position was given.
IssueRealTakesCap(owner, from, price, candle, term) ==
    /\ RealAllowed(owner, from)
    /\ nextRealId < MaxReals
    /\ reals' = Assoc(reals, nextRealId,
                      Opened(owner, from, RealSize(balances[from]), price, candle, term))
    /\ balances' = [balances EXCEPT ![from] = @ - RealAmount]
    /\ nextRealId' = nextRealId + 1
    /\ UNCHANGED <<papers, proposerRecords, nextPaperId>>

IssueReal(owner, from, price, candle, term) ==
    /\ RealAllowed(owner, from)
    /\ nextRealId < MaxReals
    /\ LET amount == RealSize(balances[from])
       IN  /\ reals' = Assoc(reals, nextRealId,
                             Opened(owner, from, amount, price, candle, term))
           /\ balances' = [balances EXCEPT ![from] = @ - amount]
    /\ nextRealId' = nextRealId + 1
    /\ UNCHANGED <<papers, proposerRecords, nextPaperId>>

DenyReal(owner, from) == ~RealAllowed(owner, from) /\ UNCHANGED vars

ValidExit(id, price) ==
    /\ id \in DOMAIN papers
    /\ papers[id].state = Active
    /\ ResidueAt(papers[id], price) > 0

ResolveGrace(id, price) ==
    /\ ValidExit(id, price)
    /\ LET residue == ResidueAt(papers[id], price)
           owner == papers[id].owner
       IN  /\ papers' = [papers EXCEPT ![id].state = Grace(residue)]
           /\ proposerRecords' =
                Assoc(proposerRecords, owner,
                      [RecordOf(owner) EXCEPT !.paperSurvived = @ + 1,
                                              !.paperGraceResidue = @ + residue])
    /\ UNCHANGED <<reals, balances, nextPaperId, nextRealId>>

DenyExit(id, price) == ~ValidExit(id, price) /\ UNCHANGED vars

\* Variant: a tick does not look at the state of what it expires.
ExpiredWhateverState(candle) ==
    {id \in DOMAIN papers : candle >= papers[id].deadline}

\* Papers a tick at this candle turns to Violence.  The code's fold visits
\* each paper once and touches only it and its owner's counter, so the
\* order of the map's values does not matter.
Expired(candle) ==
    {id \in DOMAIN papers : papers[id].state = Active
                            /\ candle >= papers[id].deadline}

\* Variant: the fold reads the records of before the tick, so that an owner
\* losing several papers is charged for one.
CheckDeadlinesStaleRecord(candle) ==
    LET dead == Expired(candle)
        losers == {papers[id].owner : id \in dead}
    IN  /\ papers' = [id \in DOMAIN papers |->
                        IF id \in dead THEN [papers[id] EXCEPT !.state = Violence]
                                       ELSE papers[id]]
        /\ proposerRecords' =
             [o \in DOMAIN proposerRecords \cup losers |->
                [RecordOf(o) EXCEPT !.paperFailed =
                   @ + IF o \in losers THEN 1 ELSE 0]]
        /\ UNCHANGED <<reals, balances, nextPaperId, nextRealId>>

CheckDeadlines(candle) ==
    LET dead == Expired(candle)
        losers == {papers[id].owner : id \in dead}
    IN  /\ papers' = [id \in DOMAIN papers |->
                        IF id \in dead THEN [papers[id] EXCEPT !.state = Violence]
                                       ELSE papers[id]]
        /\ proposerRecords' =
             [o \in DOMAIN proposerRecords \cup losers |->
                [RecordOf(o) EXCEPT !.paperFailed =
                   @ + Cardinality({id \in dead : papers[id].owner = o})]]
        /\ UNCHANGED <<reals, balances, nextPaperId, nextRealId>>

Next ==
    \/ \E o \in Owner, a \in Asset, p \in Price, c \in Candle, t \in Term :
          IssuePaper(o, a, p, c, t)
    \/ \E o \in Owner, a \in Asset, p \in Price, c \in Candle, t \in Term :
          IssueReal(o, a, p, c, t)
    \/ \E o \in Owner, a \in Asset : DenyReal(o, a)
    \/ \E id \in 0..MaxPapers, p \in Price : ResolveGrace(id, p)
    \/ \E id \in 0..MaxPapers, p \in Price : DenyExit(id, p)
    \/ \E c \in Candle : CheckDeadlines(c)

Spec == Init /\ [][Next]_vars

-----------------------------------------------------------------------------
(* Properties *)

\* Every part of the Treasury has its type, and the ids in use are exactly
\* those below the counters: a fresh id never overwrites a position
\* (treasury.wat, issue-paper and issue-real).
TypeOK ==
    /\ nextPaperId \in Nat
    /\ nextRealId \in Nat
    /\ papers \in [0..(nextPaperId - 1) -> Position]
    /\ reals \in [0..(nextRealId - 1) -> Position]
    /\ DOMAIN proposerRecords \subseteq Owner
    /\ proposerRecords \in [DOMAIN proposerRecords -> ProposerRecord]
    /\ balances \in [DOMAIN InitialBalances -> Nat]

PapersOf(o) == {id \in DOMAIN papers : papers[id].owner = o}
PapersIn(o, kind) == {id \in PapersOf(o) : papers[id].state.kind = kind}

\* The track record the gate reads is the truth about the papers: for every
\* owner, submitted, survived and failed count that owner's papers, its
\* Grace papers and its Violence papers, whichever of the three helpers
\* wrote them.
CountersMatchPapers ==
    \A o \in Owner :
        /\ RecordOf(o).paperSubmitted = Cardinality(PapersOf(o))
        /\ RecordOf(o).paperSurvived = Cardinality(PapersIn(o, "Grace"))
        /\ RecordOf(o).paperFailed = Cardinality(PapersIn(o, "Violence"))

\* What the real positions drew from asset a, and the residue that the Grace
\* papers of owner o carry.
Drawn(a) ==
    SumFunctionOnSet([id \in DOMAIN reals |-> reals[id].amount],
                     {id \in DOMAIN reals : reals[id].fromAsset = a})
Carried(o) ==
    SumFunctionOnSet([id \in DOMAIN papers |-> papers[id].state.residue],
                     PapersIn(o, "Grace"))

\* Money is accounted for: for every asset, what is left in the ledger plus
\* what the real positions drew from it is the initial balance; and the
\* residue a record has accumulated is the sum of what its owner's Grace
\* papers carry, each counted once.
CapitalConserved ==
    /\ \A a \in DOMAIN balances : InitialBalances[a] = balances[a] + Drawn(a)
    /\ \A o \in Owner : RecordOf(o).paperGraceResidue = Carried(o)

\* No capital without proof: the owner of a real position has submitted the
\* papers the gate asks for and brought at least one of them to Grace.
RealsAreEarned ==
    \A id \in DOMAIN reals :
        LET o == reals[id].owner
        IN  /\ Cardinality(PapersOf(o)) >= GateSubmissions
            /\ PapersIn(o, "Grace") # {}

\* A resolved paper is final, and nothing but its state ever changes: a
\* broker that has been told Grace or Violence never finds another answer
\* later, whatever ticks and exits follow.
ResolvedIsFinal ==
    [][\A id \in DOMAIN papers :
          /\ id \in DOMAIN papers'
          /\ papers[id].state # Active => papers'[id] = papers[id]
          /\ papers'[id] = [papers[id] EXCEPT !.state = papers'[id].state]]_vars

\* Papers move no capital (types.wat: "balances unchanged after every paper
\* op"): a step that changes a balance leaves every paper alone, opens one
\* real position and takes exactly its amount.
OnlyRealsMoveCapital ==
    [][balances' # balances =>
         /\ UNCHANGED papers
         /\ DOMAIN reals' = DOMAIN reals \cup {nextRealId}
         /\ balances' = [balances EXCEPT ![reals'[nextRealId].fromAsset] =
                            @ - reals'[nextRealId].amount]]_vars

-----------------------------------------------------------------------------
(* The promise kept: the papers' fates and the grants, read off the state *)

LifeOf ==
    [id \in DOMAIN papers |->
       [owner |-> papers[id].owner, deadline |-> papers[id].deadline,
        phase |-> papers[id].state.kind]]

GrantsOf ==
    [id \in DOMAIN reals |->
       [owner |-> reals[id].owner, asset |-> reals[id].fromAsset,
        amount |-> reals[id].amount]]

Trust == INSTANCE TrustLedger WITH
            Capital <- InitialBalances,
            life <- LifeOf, grants <- GrantsOf, funds <- balances

\* The treasury implements the trust ledger: its incremental track records
\* grant capital exactly when the papers themselves prove the owner, and every
\* operation is one step of a paper's life or none.
TrustKept == Trust!LSpec

=============================================================================
