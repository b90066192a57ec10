----------------------------- MODULE VmTreasury -----------------------------
(***************************************************************************)
(* The bank of the reference machine (domain/treasury.rs): the papers it    *)
(* issues, the record of every proposer, and deadlines scaled by the        *)
(* volatility of the last tick.  Real positions are left out: the machine   *)
(* starts the bank without a balance and no broker asks for one.  Money is  *)
(* in whole units, fees in percent; a paper's identifier is its place in    *)
(* the order of issue.                                                      *)
(***************************************************************************)
EXTENDS Integers, Sequences, FiniteSets, Functions

CONSTANTS
    Brokers,            \* proposers
    Reference,          \* the amount of a paper, 10 000 in the code
    EntryFee, ExitFee,
    Base                \* candles to a deadline at the reference volatility

ASSUME BankAssumption ==
    /\ Reference \in Nat \ {0} /\ Base \in Nat \ {0}
    /\ EntryFee \in 0..99 /\ ExitFee \in 0..99

VARIABLES
    papers,    \* issued papers
    record,    \* the proposers' records
    clock,     \* the candle of the last tick
    atr        \* the last reading and the first that was not zero

bankVars == <<papers, record, clock, atr>>

BankInit ==
    /\ papers = <<>>
    /\ record = [b \in Brokers |->
                   [submitted |-> 0, survived |-> 0, failed |-> 0, residue |-> 0]]
    /\ clock = 0
    /\ atr = [current |-> 0, reference |-> 0]

\* Volatile times shorten a deadline, calm ones lengthen it.
ScaledDeadline ==
    IF atr.current = 0 \/ atr.reference = 0 THEN Base
    ELSE (2 * Base * atr.reference + atr.current) \div (2 * atr.current)

\* What is left of a paper bought at one price when it is sold at another:
\* both fees are taken, and the amount is paid back.
Residue(bought, price) ==
    (Reference * (100 - EntryFee) * (100 - ExitFee) * price)
        \div (10000 * bought) - Reference

\* A paper is never refused.
IssuePaper(owner, price) ==
    /\ papers' = Append(papers,
                   [owner |-> owner, price |-> price, entry |-> clock,
                    deadline |-> clock + ScaledDeadline,
                    state |-> "Active", residue |-> 0])
    /\ record' = [record EXCEPT ![owner].submitted = @ + 1]
    /\ UNCHANGED <<clock, atr>>

\* Variant: only the arithmetic.
ExitGrantedLate(id, price) == Residue(papers[id].price, price) > 0

\* The bank checks the arithmetic, and neither who asks nor whose price it is.
ExitGranted(id, price) ==
    papers[id].state = "Active" /\ Residue(papers[id].price, price) > 0

ResolveGrace(id, price) ==
    LET residue == Residue(papers[id].price, price) IN
    /\ IF ExitGranted(id, price)
       THEN /\ papers' = [papers EXCEPT ![id].state = "Grace",
                                        ![id].residue = residue]
            /\ record' = [record EXCEPT ![papers[id].owner].survived = @ + 1,
                                        ![papers[id].owner].residue = @ + residue]
       ELSE UNCHANGED <<papers, record>>
    /\ UNCHANGED <<clock, atr>>

\* Variant: a paper expires after its deadline.
ExpiredLate(candle) ==
    {i \in DOMAIN papers :
        papers[i].state = "Active" /\ candle > papers[i].deadline}

Expired(candle) ==
    {i \in DOMAIN papers :
        papers[i].state = "Active" /\ candle >= papers[i].deadline}

\* Variant: whoever fails fails once, however many papers expire.
CheckDeadlinesOnce(candle) ==
    /\ papers' = [i \in DOMAIN papers |->
                    IF i \in Expired(candle)
                    THEN [papers[i] EXCEPT !.state = "Violence"] ELSE papers[i]]
    /\ record' = [b \in Brokers |->
                    IF \E i \in Expired(candle) : papers[i].owner = b
                    THEN [record[b] EXCEPT !.failed = @ + 1] ELSE record[b]]

CheckDeadlines(candle) ==
    /\ papers' = [i \in DOMAIN papers |->
                    IF i \in Expired(candle)
                    THEN [papers[i] EXCEPT !.state = "Violence"] ELSE papers[i]]
    /\ record' = [b \in Brokers |->
                    [record[b] EXCEPT
                       !.failed = @ + Cardinality({i \in Expired(candle) :
                                                      papers[i].owner = b})]]

\* A tick: the clock, the volatility, and every paper that has expired.
HandleTick(candle, reading) ==
    /\ clock' = candle
    /\ atr' = [current |-> reading,
               reference |-> IF atr.reference = 0 THEN reading ELSE atr.reference]
    /\ CheckDeadlines(candle)

-----------------------------------------------------------------------------
(* What the bank promises *)

Mine(owner, state) ==
    {i \in DOMAIN papers : papers[i].owner = owner /\ papers[i].state = state}

\* What the papers that left with a profit earned their proposer.
Earned(owner) ==
    SumFunctionOnSet([i \in DOMAIN papers |-> papers[i].residue],
                     Mine(owner, "Grace"))

\* Every record tells the outcomes of its proposer's papers, and what they
\* earned.
BooksTrue ==
    \A b \in Brokers :
        /\ record[b].survived = Cardinality(Mine(b, "Grace"))
        /\ record[b].failed = Cardinality(Mine(b, "Violence"))
        /\ record[b].submitted =
              record[b].survived + record[b].failed + Cardinality(Mine(b, "Active"))
        /\ record[b].residue = Earned(b)

\* No paper outlives its deadline by the bank's clock: one that is open falls
\* due at a later tick, or was issued since the last one with no time at all.
DeadlinesKept ==
    \A i \in DOMAIN papers :
        papers[i].state = "Active" =>
            \/ clock < papers[i].deadline
            \/ papers[i].entry = clock /\ papers[i].deadline = clock

=============================================================================
