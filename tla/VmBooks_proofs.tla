--------------------------- MODULE VmBooks_proofs ---------------------------
(***************************************************************************)
(* Proofs, for any brokers, candles and fees, about the specification of    *)
(* module VmBooks.                                                          *)
(***************************************************************************)
EXTENDS VmBooks, SumLemmas

-----------------------------------------------------------------------------
(* The inductive invariant *)

Paper == [owner : Brokers, price : Nat \ {0}, entry : Nat, deadline : Nat,
          state : {"Active", "Grace", "Violence"}, residue : Int]

Message ==
    [kind : {"tick"}, candle : Nat]
        \cup [kind : {"paper"}, from : Brokers, price : Nat]
        \cup [kind : {"exit"}, from : Brokers, id : Nat, price : Nat]
        \cup [kind : {"states"}, from : Brokers, ids : SUBSET Nat]

Record == [submitted : Nat, survived : Nat, failed : Nat, residue : Int]

BankTypes ==
    /\ papers \in Seq(Paper)
    /\ record \in [Brokers -> Record]
    /\ clock \in Nat
    /\ atr \in [current : Nat, reference : Nat]

StreamTypes ==
    /\ stream \in Seq(Candles)
    /\ ticks \in [sent : Nat, posted : Nat] /\ ticks.sent <= Len(stream)

BrokerTypes ==
    bro \in [Brokers -> [at : {"recv", "paper", "check", "exit", "states"},
                         candle : Nat, receipts : SUBSET Nat,
                         exits : SUBSET Nat, grace : Nat, violence : Nat]]

Types == BankTypes /\ StreamTypes /\ BrokerTypes /\ mail \in Seq(Message)

\* A broker holds papers of its own, and is at a candle that has been fed.
BrokersTrue ==
    \A b \in Brokers :
        /\ bro[b].candle <= Len(stream)
        /\ bro[b].at # "recv" => bro[b].candle > 0
        /\ bro[b].exits \subseteq bro[b].receipts
        /\ bro[b].at = "exit" => bro[b].exits # {}
        /\ bro[b].at \notin {"check", "exit"} => bro[b].exits = {}
        /\ \A i \in bro[b].receipts : i \in 1..Len(papers) /\ papers[i].owner = b

\* What is in the mailbox is what its sender waits for.
Meant(m) ==
    /\ m.kind = "tick" => m.candle \in 1..Len(stream)
    /\ m.kind # "tick" => bro[m.from].at = m.kind
    /\ m.kind = "paper" => m.price > 0
    /\ m.kind = "exit" => /\ m.id = Oldest(bro[m.from].exits)
                          /\ m.price = Close(m.from)
    /\ m.kind = "states" => m.ids = bro[m.from].receipts

InMail(m) == \E i \in 1..Len(mail) : mail[i] = m

MailTrue ==
    /\ gone => mail = <<>>
    /\ \A m \in Message : InMail(m) => Meant(m)
    /\ \A i, j \in 1..Len(mail) :
          i # j /\ mail[i].kind # "tick" /\ mail[j].kind # "tick" =>
              mail[i].from # mail[j].from

\* A proposer without a failure has nothing but open papers, and has learned
\* nothing.
Untaught ==
    \A b \in Brokers :
        record[b].failed = 0 =>
            /\ \A i \in 1..Len(papers) :
                  papers[i].owner = b => papers[i].state = "Active"
            /\ record[b].survived = 0
            /\ bro[b].grace = 0 /\ bro[b].violence = 0
            /\ bro[b].exits = {}

Inv == Types /\ BrokersTrue /\ MailTrue /\ Untaught /\ DeadlinesKept

-----------------------------------------------------------------------------
(* Facts about the data *)

LEMMA Candle ==
    ASSUME Types, NEW i \in 1..Len(stream)
    PROVE  stream[i] \in Candles /\ stream[i].close \in Nat \ {0}
           /\ stream[i].atr \in Nat
BY BooksAssumption DEF BooksAssumption, Types, StreamTypes

LEMMA OldestIsMember ==
    ASSUME NEW S \in SUBSET Nat, S # {}
    PROVE  Oldest(S) \in S
<1> DEFINE R == OpToRel(<, Nat)
<1>1. IsWellFoundedOn(R, Nat)
  BY NatLessThanWellFounded, Zenon
<1>2. \A i, j \in Nat : j < i => <<j, i>> \in R
  BY Zenon DEF OpToRel
<1> HIDE DEF R
<1>3. S \subseteq Nat
  OBVIOUS
<1>4. PICK i \in S : \A j \in S : <<j, i>> \notin R
  BY <1>1, <1>3, WFMin, Zenon
<1>5. \A j \in S : ~(j < i)
  BY <1>2, <1>3, <1>4, Zenon
<1>6. \A j \in S : i <= j
  BY <1>3, <1>5
<1> QED
  BY <1>6 DEF Oldest

LEMMA HeadOfMail ==
    ASSUME Types, mail # <<>>
    PROVE  /\ Head(mail) \in Message /\ Tail(mail) \in Seq(Message)
           /\ Head(mail) = mail[1] /\ Len(mail) \in Nat \ {0}
           /\ Len(Tail(mail)) = Len(mail) - 1
           /\ \A i \in 1..(Len(mail) - 1) : Tail(mail)[i] = mail[i + 1]
BY DEF Types

LEMMA AppendToMail ==
    ASSUME Types, NEW x \in Message
    PROVE  /\ Len(mail) \in Nat /\ Len(Append(mail, x)) = Len(mail) + 1
           /\ Append(mail, x) \in Seq(Message)
           /\ \A i \in 1..Len(mail) : Append(mail, x)[i] = mail[i]
           /\ Append(mail, x)[Len(mail) + 1] = x
BY DEF Types

LEMMA Senders ==
    ASSUME NEW m \in Message, m.kind # "tick"
    PROVE  m.from \in Brokers
           /\ m.kind \in {"paper", "exit", "states"}
           /\ (m.kind = "paper" => m.price \in Nat)
           /\ (m.kind = "exit" => m.price \in Nat /\ m.id \in Nat)
           /\ (m.kind = "states" => m.ids \in SUBSET Nat)
BY DEF Message

LEMMA Quotients ==
    /\ \A a \in Nat, b \in Nat \ {0} : a \div b \in Nat
    /\ \A a \in Int, b \in Nat \ {0} : a \div b \in Int
OBVIOUS

LEMMA ScaledIsNatural == ASSUME BankTypes PROVE ScaledDeadline \in Nat
<1>1. Base \in Nat /\ atr.reference \in Nat /\ atr.current \in Nat
  BY BankAssumption DEF BankTypes, BankAssumption
<1>2. Base * atr.reference \in Nat
  BY <1>1
<1>3. 2 * Base * atr.reference + atr.current \in Nat
  BY <1>1, <1>2
<1> QED
  BY <1>1, <1>3, Quotients DEF ScaledDeadline

LEMMA ResidueIsInteger ==
    ASSUME NEW bought \in Nat \ {0}, NEW price \in Nat
    PROVE  Residue(bought, price) \in Int
<1>1. Reference \in Nat /\ 100 - EntryFee \in Nat /\ 100 - ExitFee \in Nat
  BY BankAssumption DEF BankAssumption
<1>2. \A a, b \in Nat : a * b \in Nat
  OBVIOUS
<1>3. Reference * (100 - EntryFee) * (100 - ExitFee) * price \in Int
  BY <1>1, <1>2
<1>4. 10000 * bought \in Nat \ {0}
  OBVIOUS
<1> QED
  BY <1>1, <1>3, <1>4, Quotients DEF Residue

\* A paper's place in the order of issue.
LEMMA Issued ==
    ASSUME BankTypes
    PROVE  /\ Len(papers) \in Nat /\ DOMAIN papers = 1..Len(papers)
           /\ \A i \in 1..Len(papers) : papers[i] \in Paper
BY DEF BankTypes

\* Papers are finitely many, and so are those that somebody holds.
LEMMA FewPapers ==
    ASSUME BankTypes, NEW S, S \subseteq 1..Len(papers)
    PROVE  IsFiniteSet(S) /\ Cardinality(S) \in Nat
           /\ (S = {} <=> Cardinality(S) = 0)
<1>1. IsFiniteSet(1..Len(papers))
  BY FS_Interval, Issued
<1>2. IsFiniteSet(S)
  BY <1>1, FS_Subset
<1> QED
  BY <1>2, FS_CardinalityType, FS_EmptySet

-----------------------------------------------------------------------------
(* What the operations of the bank do *)

\* Papers keep their place and their owner, and are issued at the end.
Keeps ==
    /\ BankTypes'
    /\ Len(papers') >= Len(papers)
    /\ \A i \in 1..Len(papers) : papers'[i].owner = papers[i].owner

LEMMA KeepsWhenIdle == ASSUME BankTypes, UNCHANGED bankVars PROVE Keeps
BY Issued DEF bankVars, BankTypes, Keeps

LEMMA IssueKeeps ==
    ASSUME BankTypes, NEW b \in Brokers, NEW price \in Nat \ {0},
           IssuePaper(b, price)
    PROVE  /\ Keeps
           /\ Len(papers') = Len(papers) + 1
           /\ \A i \in 1..Len(papers) : papers'[i] = papers[i]
           /\ papers'[Len(papers) + 1].owner = b
           /\ papers'[Len(papers) + 1].state = "Active"
           /\ papers'[Len(papers) + 1].entry = clock
           /\ papers'[Len(papers) + 1].deadline \in Nat
           /\ papers'[Len(papers) + 1].deadline >= clock
<1> DEFINE new == [owner |-> b, price |-> price, entry |-> clock,
                   deadline |-> clock + ScaledDeadline,
                   state |-> "Active", residue |-> 0]
<1>1. clock \in Nat /\ ScaledDeadline \in Nat
  BY ScaledIsNatural DEF BankTypes
<1>2. clock + ScaledDeadline \in Nat /\ clock + ScaledDeadline >= clock
  BY <1>1
<1>3. new \in Paper
  BY <1>1, <1>2 DEF Paper
<1>4. papers' = Append(papers, new)
  BY DEF IssuePaper
<1>5. /\ papers' \in Seq(Paper) /\ Len(papers') = Len(papers) + 1
      /\ \A i \in 1..Len(papers) : papers'[i] = papers[i]
      /\ papers'[Len(papers) + 1] = new
  <2> HIDE DEF new
  <2> QED
    BY <1>3, <1>4 DEF BankTypes
<1>6. record' \in [Brokers -> Record]
  <2>1. record[b] \in Record
    BY DEF BankTypes
  <2>2. [record[b] EXCEPT !.submitted = @ + 1] \in Record
    BY <2>1 DEF Record
  <2>3. record' = [record EXCEPT ![b] = [record[b] EXCEPT !.submitted = @ + 1]]
    BY DEF IssuePaper
  <2> HIDE DEF Record
  <2> QED
    BY <2>2, <2>3 DEF BankTypes
<1>7. BankTypes'
  BY <1>5, <1>6 DEF IssuePaper, BankTypes
<1> QED
  BY <1>2, <1>5, <1>7, Issued DEF Keeps

\* Leaving resolves at most the paper that is named.
LEMMA LeaveKeeps ==
    ASSUME BankTypes, NEW id \in 1..Len(papers), NEW price \in Nat,
           ResolveGrace(id, price)
    PROVE  /\ Keeps
           /\ Len(papers') = Len(papers)
           /\ \A i \in 1..Len(papers) :
                 /\ papers'[i].deadline = papers[i].deadline
                 /\ papers'[i].entry = papers[i].entry
                 /\ i # id => papers'[i] = papers[i]
                 /\ papers'[i] # papers[i] =>
                       /\ papers[i].state = "Active"
                       /\ papers'[i].state = "Grace"
                       /\ papers'[i].residue = Residue(papers[i].price, price)
                       /\ papers'[i].residue > 0
           /\ \A b \in Brokers :
                 /\ record'[b].failed = record[b].failed
                 /\ b # papers[id].owner => record'[b] = record[b]
<1> DEFINE residue == Residue(papers[id].price, price)
<1>1. papers[id] \in Paper /\ papers[id].price \in Nat \ {0}
      /\ papers[id].owner \in Brokers
  BY Issued DEF Paper
<1>2. residue \in Int
  BY <1>1, ResidueIsInteger
<1>3. Len(papers) \in Nat /\ papers \in Seq(Paper) /\ DOMAIN papers = 1..Len(papers)
  BY Issued DEF BankTypes
<1>4. CASE ExitGranted(id, price)
  <2>1. /\ papers' = [papers EXCEPT ![id].state = "Grace", ![id].residue = residue]
        /\ record' = [record EXCEPT ![papers[id].owner].survived = @ + 1,
                                    ![papers[id].owner].residue = @ + residue]
        /\ UNCHANGED <<clock, atr>>
    BY <1>4 DEF ResolveGrace
  <2>2. residue > 0 /\ papers[id].state = "Active"
    BY <1>4 DEF ExitGranted
  <2> HIDE DEF residue
  <2>3. [papers[id] EXCEPT !.state = "Grace", !.residue = residue] \in Paper
    BY <1>1, <1>2 DEF Paper
  <2>4. papers' \in Seq(Paper) /\ Len(papers') = Len(papers)
        /\ \A i \in 1..Len(papers) : i # id => papers'[i] = papers[i]
    <3>1. papers' \in [1..Len(papers) -> Paper]
          /\ \A i \in 1..Len(papers) : i # id => papers'[i] = papers[i]
      <4>1. DOMAIN papers' = 1..Len(papers)
        BY <1>3, <2>1
      <4>2. papers' = [i \in 1..Len(papers) |-> papers'[i]]
        BY <1>3, <2>1
      <4>3. papers'[id] \in Paper
        BY <1>3, <2>1, <2>3
      <4>4. \A i \in 1..Len(papers) : i # id => papers'[i] = papers[i]
        BY <1>3, <2>1
      <4>5. \A i \in 1..Len(papers) : papers'[i] \in Paper
        BY <1>3, <4>3, <4>4
      <4> QED
        BY <4>2, <4>4, <4>5
    <3> QED
      BY <1>3, <3>1
  <2>5. papers'[id] = [papers[id] EXCEPT !.state = "Grace", !.residue = residue]
    BY <1>3, <2>1
  <2>6. /\ papers'[id].deadline = papers[id].deadline
        /\ papers'[id].entry = papers[id].entry
        /\ papers'[id].owner = papers[id].owner
        /\ papers'[id].state = "Grace"
        /\ papers'[id].residue = residue
    BY <1>1, <2>5 DEF Paper
  <2>7. record' \in [Brokers -> Record]
    <3> DEFINE o == papers[id].owner
               new == [record[o] EXCEPT !.survived = @ + 1,
                                        !.residue = @ + residue]
    <3>1. record[o] \in Record
      BY <1>1 DEF BankTypes
    <3>2. new \in Record
      <4> HIDE DEF o
      <4>1. record[o].survived + 1 \in Nat /\ record[o].residue + residue \in Int
        BY <1>2, <3>1 DEF Record
      <4> QED
        BY <3>1, <4>1 DEF Record
    <3>3. \A b \in Brokers : b # o => record'[b] = record[b]
      BY <1>1, <2>1 DEF BankTypes
    <3>4. record'[o] = new
      BY <1>1, <2>1 DEF BankTypes
    <3>5. record' = [b \in Brokers |-> record'[b]]
      BY <1>1, <2>1 DEF BankTypes
    <3> HIDE DEF new, o
    <3> QED
      BY <3>2, <3>3, <3>4, <3>5 DEF BankTypes
  <2>8. \A b \in Brokers : /\ record'[b].failed = record[b].failed
                           /\ b # papers[id].owner => record'[b] = record[b]
    BY <1>1, <2>1 DEF BankTypes
  <2>9. BankTypes'
    BY <2>1, <2>4, <2>7 DEF BankTypes
  <2>10. \A i \in 1..Len(papers) :
            /\ papers'[i].owner = papers[i].owner
            /\ papers'[i].deadline = papers[i].deadline
            /\ papers'[i].entry = papers[i].entry
    BY <2>4, <2>6
  <2>11. Keeps
    BY <1>3, <2>4, <2>9, <2>10 DEF Keeps
  <2>12. \A i \in 1..Len(papers) : papers'[i] # papers[i] =>
            /\ papers[i].state = "Active" /\ papers'[i].state = "Grace"
            /\ papers'[i].residue = Residue(papers[i].price, price)
            /\ papers'[i].residue > 0
    <3> SUFFICES ASSUME NEW i \in 1..Len(papers), papers'[i] # papers[i]
                 PROVE  /\ papers[i].state = "Active" /\ papers'[i].state = "Grace"
                        /\ papers'[i].residue = Residue(papers[i].price, price)
                        /\ papers'[i].residue > 0
      OBVIOUS
    <3>1. i = id
      BY <2>4
    <3> QED
      BY <2>2, <2>6, <3>1 DEF residue
  <2> QED
    BY <2>4, <2>8, <2>10, <2>11, <2>12
<1>5. CASE ~ExitGranted(id, price)
  <2>1. UNCHANGED bankVars
    BY <1>5 DEF ResolveGrace, bankVars
  <2>2. Keeps
    BY <2>1, KeepsWhenIdle
  <2> QED
    BY <2>1, <2>2 DEF bankVars
<1> QED
  BY <1>4, <1>5

\* A tick runs out the papers that are due and counts them.
LEMMA TickKeeps ==
    ASSUME BankTypes, NEW candle \in Nat, NEW reading \in Nat,
           HandleTick(candle, reading)
    PROVE  /\ Keeps
           /\ Len(papers') = Len(papers)
           /\ clock' = candle
           /\ \A i \in 1..Len(papers) :
                 /\ papers'[i].deadline = papers[i].deadline
                 /\ papers'[i].state = "Active" => candle < papers[i].deadline
                 /\ \/ papers'[i].state = papers[i].state
                    \/ papers[i].state = "Active" /\ papers'[i].state = "Violence"
           /\ \A b \in Brokers :
                 /\ record'[b].survived = record[b].survived
                 /\ record'[b].failed = 0 =>
                       /\ record[b].failed = 0
                       /\ \A i \in 1..Len(papers) :
                             papers[i].owner = b =>
                                papers'[i].state = papers[i].state
<1>1. Len(papers) \in Nat /\ papers \in Seq(Paper) /\ DOMAIN papers = 1..Len(papers)
      /\ \A i \in 1..Len(papers) : papers[i] \in Paper
  BY Issued DEF BankTypes
<1> DEFINE due == Expired(candle)
           Due(b) == {i \in due : papers[i].owner = b}
<1>2. due \subseteq 1..Len(papers)
      /\ \A i \in 1..Len(papers) :
            i \in due <=> papers[i].state = "Active" /\ candle >= papers[i].deadline
  BY <1>1 DEF Expired
<1>3. papers' = [i \in 1..Len(papers) |->
                   IF i \in due THEN [papers[i] EXCEPT !.state = "Violence"]
                   ELSE papers[i]]
  BY <1>1 DEF HandleTick, CheckDeadlines
<1>4. record' = [b \in Brokers |->
                   [record[b] EXCEPT !.failed = @ + Cardinality(Due(b))]]
  BY DEF HandleTick, CheckDeadlines
<1>5. clock' = candle /\ atr' = [current |-> reading,
               reference |-> IF atr.reference = 0 THEN reading ELSE atr.reference]
  BY DEF HandleTick
<1> HIDE DEF due
<1>6. \A b \in Brokers : Cardinality(Due(b)) \in Nat
                         /\ (Cardinality(Due(b)) = 0 => Due(b) = {})
  BY <1>2, FewPapers
<1>7. \A i \in 1..Len(papers) :
         /\ papers'[i] \in Paper
         /\ papers'[i].owner = papers[i].owner
         /\ papers'[i].deadline = papers[i].deadline
         /\ i \in due => papers'[i].state = "Violence"
         /\ i \notin due => papers'[i] = papers[i]
  BY <1>1, <1>3 DEF Paper
<1>8. papers' \in Seq(Paper) /\ Len(papers') = Len(papers)
  <2>1. papers' \in [1..Len(papers) -> Paper]
    BY <1>3, <1>7
  <2> QED
    BY <1>1, <2>1
<1>9. record' \in [Brokers -> Record]
      /\ \A b \in Brokers :
            /\ record'[b].survived = record[b].survived
            /\ record'[b].failed = record[b].failed + Cardinality(Due(b))
            /\ record[b].failed \in Nat
  <2> HIDE DEF Due
  <2>1. \A b \in Brokers :
           /\ record[b] \in Record
           /\ record'[b] = [record[b] EXCEPT !.failed = @ + Cardinality(Due(b))]
    BY <1>4 DEF BankTypes
  <2>2. \A b \in Brokers :
           /\ record'[b] \in Record
           /\ record'[b].survived = record[b].survived
           /\ record'[b].failed = record[b].failed + Cardinality(Due(b))
           /\ record[b].failed \in Nat
    <3> SUFFICES ASSUME NEW b \in Brokers
                 PROVE  /\ record'[b] \in Record
                        /\ record'[b].survived = record[b].survived
                        /\ record'[b].failed =
                              record[b].failed + Cardinality(Due(b))
                        /\ record[b].failed \in Nat
      OBVIOUS
    <3>1. record[b] \in Record /\ record[b].failed \in Nat
      BY <2>1 DEF Record
    <3>2. record[b].failed + Cardinality(Due(b)) \in Nat
      BY <1>6, <3>1
    <3> QED
      BY <2>1, <3>1, <3>2 DEF Record
  <2> QED
    BY <1>4, <2>2
<1>10. BankTypes'
  BY <1>5, <1>8, <1>9 DEF BankTypes
<1>11. Keeps
  BY <1>1, <1>7, <1>8, <1>10 DEF Keeps
<1>12. \A i \in 1..Len(papers) :
          /\ papers'[i].deadline = papers[i].deadline
          /\ papers'[i].state = "Active" => candle < papers[i].deadline
          /\ \/ papers'[i].state = papers[i].state
             \/ papers[i].state = "Active" /\ papers'[i].state = "Violence"
  <2> TAKE i \in 1..Len(papers)
  <2>1. papers[i].deadline \in Nat
    BY <1>1 DEF Paper
  <2>2. CASE i \in due
    BY <1>2, <1>7, <2>2
  <2>3. CASE i \notin due
    BY <1>2, <1>7, <2>1, <2>3
  <2> QED
    BY <2>2, <2>3
<1>13. \A b \in Brokers : record'[b].failed = 0 =>
          /\ record[b].failed = 0
          /\ \A i \in 1..Len(papers) :
                papers[i].owner = b => papers'[i].state = papers[i].state
  <2> SUFFICES ASSUME NEW b \in Brokers, record'[b].failed = 0
               PROVE  /\ record[b].failed = 0
                      /\ \A i \in 1..Len(papers) :
                            papers[i].owner = b => papers'[i].state = papers[i].state
    OBVIOUS
  <2>1. record[b].failed = 0 /\ Cardinality(Due(b)) = 0
    <3> HIDE DEF Due
    <3> QED
      BY <1>6, <1>9
  <2>2. \A i \in 1..Len(papers) : papers[i].owner = b => i \notin due
    BY <1>6, <2>1
  <2> QED
    BY <1>7, <2>1, <2>2
<1> QED
  BY <1>5, <1>8, <1>9, <1>11, <1>12, <1>13

-----------------------------------------------------------------------------
(* What the brokers do *)

Bro == [at : {"recv", "paper", "check", "exit", "states"}, candle : Nat,
        receipts : SUBSET Nat, exits : SUBSET Nat, grace : Nat, violence : Nat]

\* The step of one broker: the others stay as they are.
Moves(b) == bro' \in [Brokers -> Bro] /\ \A c \in Brokers \ {b} : bro'[c] = bro[c]

LEMMA OneMoves ==
    ASSUME BrokerTypes, NEW b \in Brokers, NEW x \in Bro,
           bro' = [bro EXCEPT ![b] = x]
    PROVE  Moves(b) /\ bro'[b] = x
<1> HIDE DEF Bro
<1>1. bro \in [Brokers -> Bro]
  BY DEF BrokerTypes, Bro
<1> QED
  BY <1>1 DEF Moves

LEMMA BrokerIs ==
    ASSUME BrokerTypes, NEW b \in Brokers
    PROVE  /\ bro[b] \in Bro
           /\ bro[b].at \in {"recv", "paper", "check", "exit", "states"}
           /\ bro[b].candle \in Nat /\ bro[b].receipts \in SUBSET Nat
           /\ bro[b].exits \in SUBSET Nat
           /\ bro[b].grace \in Nat /\ bro[b].violence \in Nat
BY DEF BrokerTypes, Bro

\* A broker holds what it held and at most the paper it was given, and asks to
\* leave only when it has learned something.
LEMMA PaperIsTaken ==
    ASSUME Types, NEW b \in Brokers, NEW issued \in SUBSET Nat,
           GetsPaper(b, issued)
    PROVE  /\ Moves(b)
           /\ bro'[b].at = "check" /\ bro'[b].candle = bro[b].candle
           /\ bro'[b].receipts = bro[b].receipts \cup issued
           /\ bro'[b].exits \subseteq bro'[b].receipts
           /\ bro'[b].exits # {} => bro[b].grace > 0 \/ bro[b].violence > 0
           /\ bro'[b].grace = bro[b].grace /\ bro'[b].violence = bro[b].violence
<1>1. bro[b] \in Bro /\ bro[b].receipts \in SUBSET Nat
      /\ bro[b].grace \in Nat /\ bro[b].violence \in Nat
  BY BrokerIs DEF Types
<1> DEFINE held == bro[b].receipts \cup issued
<1>2. held \in SUBSET Nat
  BY <1>1
<1>3. PICK wantsExit \in BOOLEAN :
         /\ wantsExit => MayLeave(b)
         /\ bro' = [bro EXCEPT ![b].at = "check", ![b].receipts = held,
                               ![b].exits = IF wantsExit THEN held ELSE {}]
  BY DEF GetsPaper
<1> DEFINE x == [bro[b] EXCEPT !.at = "check", !.receipts = held,
                               !.exits = IF wantsExit THEN held ELSE {}]
<1> HIDE DEF held
<1>4. x \in Bro
  BY <1>1, <1>2 DEF Bro
<1>5. /\ x.at = "check" /\ x.candle = bro[b].candle /\ x.receipts = held
      /\ x.exits = IF wantsExit THEN held ELSE {}
      /\ x.grace = bro[b].grace /\ x.violence = bro[b].violence
  BY <1>1 DEF Bro
<1>6. bro' = [bro EXCEPT ![b] = x]
  BY <1>3
<1> HIDE DEF x
<1>7. Moves(b) /\ bro'[b] = x
  BY <1>4, <1>6, OneMoves DEF Types
<1>8. wantsExit => bro[b].grace > 0 \/ bro[b].violence > 0
  BY <1>1, <1>3 DEF MayLeave
<1> QED
  BY <1>5, <1>7, <1>8 DEF held

LEMMA LeavingIsTaken ==
    ASSUME Types, NEW b \in Brokers, GetsExit(b)
    PROVE  /\ Moves(b)
           /\ bro'[b].at = "check" /\ bro'[b].candle = bro[b].candle
           /\ bro'[b].receipts = bro[b].receipts
           /\ bro'[b].exits \subseteq bro[b].exits
           /\ bro'[b].grace = bro[b].grace /\ bro'[b].violence = bro[b].violence
<1>1. bro[b] \in Bro /\ bro[b].exits \in SUBSET Nat
  BY BrokerIs DEF Types
<1> DEFINE rest == bro[b].exits \ {Oldest(bro[b].exits)}
<1>2. rest \in SUBSET Nat /\ rest \subseteq bro[b].exits
  BY <1>1
<1> DEFINE x == [bro[b] EXCEPT !.at = "check", !.exits = rest]
<1>3. bro' = [bro EXCEPT ![b] = x]
  BY DEF GetsExit
<1> HIDE DEF rest
<1>4. x \in Bro
  BY <1>1, <1>2 DEF Bro
<1>5. /\ x.at = "check" /\ x.candle = bro[b].candle /\ x.receipts = bro[b].receipts
      /\ x.exits = rest /\ x.grace = bro[b].grace /\ x.violence = bro[b].violence
  BY <1>1 DEF Bro
<1> HIDE DEF x
<1>6. Moves(b) /\ bro'[b] = x
  BY <1>3, <1>4, OneMoves DEF Types
<1> QED
  BY <1>2, <1>5, <1>6

\* What an answer says of the papers a broker holds.
Told(b, states, state) ==
    {id \in bro[b].receipts \cap DOMAIN states : states[id] = state}

\* Nothing is learned from an answer that knows of no outcome.
LEMMA StatesAreTaken ==
    ASSUME Types, BrokersTrue, NEW b \in Brokers, NEW states,
           GetsStates(b, states)
    PROVE  /\ Moves(b)
           /\ bro'[b].at = "recv" /\ bro'[b].candle = bro[b].candle
           /\ bro'[b].receipts \subseteq bro[b].receipts
           /\ bro'[b].exits = bro[b].exits
           /\ (\A id \in bro[b].receipts \cap DOMAIN states :
                  states[id] = "Active") =>
                 bro'[b].grace = bro[b].grace /\ bro'[b].violence = bro[b].violence
           /\ bro'[b].receipts = Told(b, states, "Active")
           /\ bro'[b].grace = bro[b].grace + Cardinality(Told(b, states, "Grace"))
           /\ bro'[b].violence
                 = bro[b].violence + Cardinality(Told(b, states, "Violence"))
<1> DEFINE graces == Told(b, states, "Grace")
           violences == Told(b, states, "Violence")
           kept == Told(b, states, "Active")
           g == Cardinality(graces)
           v == Cardinality(violences)
<1>1. bro[b] \in Bro /\ bro[b].receipts \in SUBSET Nat
      /\ bro[b].grace \in Nat /\ bro[b].violence \in Nat
  BY BrokerIs DEF Types
<1>2. bro[b].receipts \subseteq 1..Len(papers)
  BY DEF BrokersTrue
<1>3. /\ kept \subseteq bro[b].receipts /\ kept \in SUBSET Nat
      /\ graces \subseteq 1..Len(papers)
      /\ violences \subseteq 1..Len(papers)
  BY <1>1, <1>2 DEF Told
<1>4. g \in Nat /\ v \in Nat
      /\ (graces = {} => g = 0) /\ (violences = {} => v = 0)
  BY <1>3, FewPapers DEF Types
<1> DEFINE x == [bro[b] EXCEPT !.at = "recv", !.receipts = kept,
                               !.grace = @ + g, !.violence = @ + v]
<1>5. bro' = [bro EXCEPT ![b] = x]
  BY DEF GetsStates, Told
<1>6. (\A id \in bro[b].receipts \cap DOMAIN states : states[id] = "Active") =>
         g = 0 /\ v = 0
  <2> SUFFICES ASSUME \A id \in bro[b].receipts \cap DOMAIN states :
                         states[id] = "Active"
               PROVE  g = 0 /\ v = 0
    OBVIOUS
  <2>1. graces = {} /\ violences = {}
    BY DEF Told
  <2> QED
    BY <1>4, <2>1
<1> HIDE DEF g, v, kept
<1>7. bro[b].grace + g \in Nat /\ bro[b].violence + v \in Nat
  BY <1>1, <1>4
<1>8. x \in Bro
  BY <1>1, <1>3, <1>7 DEF Bro
<1>9. /\ x.at = "recv" /\ x.candle = bro[b].candle /\ x.receipts = kept
      /\ x.exits = bro[b].exits
      /\ x.grace = bro[b].grace + g /\ x.violence = bro[b].violence + v
  BY <1>1 DEF Bro
<1> HIDE DEF x
<1>10. Moves(b) /\ bro'[b] = x
  BY <1>5, <1>8, OneMoves DEF Types
<1>11. bro[b].grace + 0 = bro[b].grace /\ bro[b].violence + 0 = bro[b].violence
  BY <1>1
<1>12. /\ bro'[b].receipts = kept
       /\ bro'[b].grace = bro[b].grace + g
       /\ bro'[b].violence = bro[b].violence + v
  BY <1>9, <1>10
<1> QED
  BY <1>3, <1>6, <1>9, <1>10, <1>11, <1>12 DEF kept, g, v

\* A broker that asks: it waits for one answer.
LEMMA AskIsMade ==
    ASSUME Types, BrokersTrue, NEW b \in Brokers,
           SubmitPaper(b) \/ SubmitExit(b) \/ BatchGet(b) \/ NothingHeld(b)
    PROVE  /\ Moves(b)
           /\ bro[b].at \in {"recv", "check"}
           /\ bro'[b].at = "recv" \/ bro'[b].candle > 0
           /\ bro'[b].candle <= Len(stream)
           /\ bro'[b].receipts = bro[b].receipts
           /\ bro'[b].exits = bro[b].exits
           /\ bro'[b].at = "exit" => bro[b].exits # {}
           /\ bro'[b].at \in {"recv", "paper", "states"} => bro[b].exits = {}
           /\ bro'[b].at \in {"recv", "paper", "exit", "states"}
           /\ bro'[b].grace = bro[b].grace /\ bro'[b].violence = bro[b].violence
<1>1. bro[b] \in Bro /\ bro[b].candle \in Nat /\ Len(stream) \in Nat
      /\ bro[b].candle <= Len(stream)
  BY BrokerIs DEF Types, StreamTypes, BrokersTrue
<1>2. CASE SubmitPaper(b)
  <2> DEFINE x == [bro[b] EXCEPT !.at = "paper", !.candle = @ + 1]
  <2>1. bro' = [bro EXCEPT ![b] = x] /\ bro[b].at = "recv"
        /\ bro[b].candle < Len(stream)
    BY <1>2 DEF SubmitPaper
  <2>4. /\ bro[b].candle + 1 \in Nat /\ bro[b].candle + 1 > 0
        /\ bro[b].candle + 1 <= Len(stream)
    BY <1>1, <2>1
  <2>2. x \in Bro
    BY <1>1, <2>4 DEF Bro
  <2>3. /\ x.at = "paper" /\ x.candle = bro[b].candle + 1
        /\ x.receipts = bro[b].receipts /\ x.exits = bro[b].exits
        /\ x.grace = bro[b].grace /\ x.violence = bro[b].violence
    BY <1>1 DEF Bro
  <2> HIDE DEF x
  <2>5. Moves(b) /\ bro'[b] = x
    BY <2>1, <2>2, OneMoves DEF Types
  <2>6. bro[b].exits = {}
    BY <2>1 DEF BrokersTrue
  <2> QED
    BY <1>1, <2>1, <2>3, <2>4, <2>5, <2>6
<1>3. ASSUME NEW at \in {"exit", "states", "recv"}, bro[b].at = "check",
             bro' = [bro EXCEPT ![b].at = at],
             at = "exit" => bro[b].exits # {},
             at # "exit" => bro[b].exits = {}
      PROVE  /\ Moves(b)
             /\ bro[b].at \in {"recv", "check"}
             /\ bro'[b].at = "recv" \/ bro'[b].candle > 0
             /\ bro'[b].candle <= Len(stream)
             /\ bro'[b].receipts = bro[b].receipts
             /\ bro'[b].exits = bro[b].exits
             /\ bro'[b].at = "exit" => bro[b].exits # {}
             /\ bro'[b].at \in {"recv", "paper", "states"} => bro[b].exits = {}
             /\ bro'[b].at \in {"recv", "paper", "exit", "states"}
             /\ bro'[b].grace = bro[b].grace
             /\ bro'[b].violence = bro[b].violence
  <2> DEFINE x == [bro[b] EXCEPT !.at = at]
  <2>1. bro' = [bro EXCEPT ![b] = x]
    BY <1>3
  <2>2. x \in Bro
    BY <1>1 DEF Bro
  <2>3. /\ x.at = at /\ x.candle = bro[b].candle
        /\ x.receipts = bro[b].receipts /\ x.exits = bro[b].exits
        /\ x.grace = bro[b].grace /\ x.violence = bro[b].violence
    BY <1>1 DEF Bro
  <2>4. bro[b].candle > 0
    BY <1>3 DEF BrokersTrue
  <2> HIDE DEF x
  <2> QED
    BY <1>1, <1>3, <2>1, <2>2, <2>3, <2>4, OneMoves DEF Types
<1>4. CASE SubmitExit(b)
  BY <1>3, <1>4 DEF SubmitExit
<1>5. CASE BatchGet(b)
  BY <1>3, <1>5 DEF BatchGet
<1>6. CASE NothingHeld(b)
  BY <1>3, <1>6 DEF NothingHeld
<1> QED
  BY <1>2, <1>4, <1>5, <1>6

-----------------------------------------------------------------------------
(* What a step takes and changes *)

\* The request that is served is the one its sender waits for.
LEMMA HeadIsMeant ==
    ASSUME Types, BrokersTrue, MailTrue, mail # <<>>
    PROVE  /\ Head(mail) \in Message
           /\ Head(mail).kind \in {"tick", "paper", "exit", "states"}
           /\ Head(mail).kind = "tick" =>
                 /\ Head(mail).candle \in 1..Len(stream)
                 /\ stream[Head(mail).candle].atr \in Nat
           /\ Head(mail).kind # "tick" =>
                 /\ Head(mail).from \in Brokers
                 /\ bro[Head(mail).from].at = Head(mail).kind
           /\ Head(mail).kind = "paper" => Head(mail).price \in Nat \ {0}
           /\ Head(mail).kind = "exit" =>
                 /\ Head(mail).id \in bro[Head(mail).from].exits
                 /\ Head(mail).id \in 1..Len(papers)
                 /\ papers[Head(mail).id].owner = Head(mail).from
                 /\ Head(mail).price = Close(Head(mail).from)
                 /\ Head(mail).price \in Nat
           /\ Head(mail).kind = "states" =>
                 /\ Head(mail).ids \in SUBSET Nat
                 /\ Head(mail).ids = bro[Head(mail).from].receipts
<1> DEFINE m == Head(mail)
<1>1. m \in Message /\ m = mail[1] /\ 1 \in 1..Len(mail)
  BY HeadOfMail
<1> HIDE DEF m
<1>2. Meant(m)
  BY <1>1 DEF MailTrue, InMail
<1>3. m.kind \in {"tick", "paper", "exit", "states"}
  BY <1>1 DEF Message
<1>4. m.kind # "tick" => m.from \in Brokers /\ bro[m.from].at = m.kind
  BY <1>1, <1>2, Senders DEF Meant
<1>5. ASSUME m.kind = "tick"
      PROVE  m.candle \in 1..Len(stream) /\ stream[m.candle].atr \in Nat
  BY <1>2, <1>5, Candle DEF Meant
<1>6. ASSUME m.kind = "paper" PROVE m.price \in Nat \ {0}
  BY <1>1, <1>2, <1>6, Senders DEF Meant
<1>7. ASSUME m.kind = "exit"
      PROVE  /\ m.id \in bro[m.from].exits /\ m.id \in 1..Len(papers)
             /\ papers[m.id].owner = m.from
             /\ m.price = Close(m.from) /\ m.price \in Nat
  <2>1. m.from \in Brokers /\ bro[m.from].at = "exit" /\ m.price \in Nat
    BY <1>1, <1>4, <1>7, Senders
  <2>2. m.id = Oldest(bro[m.from].exits) /\ m.price = Close(m.from)
    BY <1>2, <1>7 DEF Meant
  <2>3. bro[m.from].exits \in SUBSET Nat /\ bro[m.from].exits # {}
    BY <2>1, BrokerIs DEF Types, BrokersTrue
  <2>4. m.id \in bro[m.from].exits
    BY <2>2, <2>3, OldestIsMember
  <2> QED
    BY <2>1, <2>2, <2>4 DEF BrokersTrue
<1>8. ASSUME m.kind = "states"
      PROVE  m.ids \in SUBSET Nat /\ m.ids = bro[m.from].receipts
  BY <1>1, <1>2, <1>8, Senders DEF Meant
<1> QED
  BY <1>1, <1>3, <1>4, <1>5, <1>6, <1>7, <1>8 DEF m

\* The steps of the specification.
LEMMA Steps ==
    ASSUME [Next]_vars
    PROVE  \/ Feed \/ SendTick \/ FanIn \/ TreasuryDies
           \/ UNCHANGED vars
           \/ \E b \in Brokers : \/ SubmitPaper(b) \/ SubmitExit(b) \/ BatchGet(b)
                                 \/ NothingHeld(b)
           \/ \E b \in Brokers : Unanswered(b)
           \/ HandleNextTick \/ HandlePaper \/ HandleExit \/ HandleStates
BY DEF Next, Broker, Treasury, StreamOver

\* Candles are added at the end of the stream.
LEMMA StreamGrows ==
    ASSUME Types, [Next]_vars
    PROVE  /\ StreamTypes' /\ Len(stream') >= Len(stream)
           /\ \A i \in 1..Len(stream) : stream'[i] = stream[i]
<1>1. stream \in Seq(Candles) /\ Len(stream) \in Nat
      /\ ticks \in [sent : Nat, posted : Nat]
      /\ ticks.sent \in Nat /\ ticks.posted \in Nat /\ ticks.sent <= Len(stream)
  BY DEF Types, StreamTypes
<1>2. CASE Feed
  <2>1. PICK candle \in Candles : stream' = Append(stream, candle)
    BY <1>2 DEF Feed
  <2>2. ticks' = ticks
    BY <1>2 DEF Feed
  <2>3. stream' \in Seq(Candles) /\ Len(stream') = Len(stream) + 1
        /\ \A i \in 1..Len(stream) : stream'[i] = stream[i]
    BY <1>1, <2>1
  <2> QED
    BY <1>1, <2>2, <2>3 DEF StreamTypes
<1>3. CASE SendTick
  <2>1. ticks' = [ticks EXCEPT !.sent = @ + 1] /\ ticks.sent < Len(stream)
        /\ stream' = stream
    BY <1>3 DEF SendTick
  <2>2. ticks.sent + 1 \in Nat /\ ticks.sent + 1 <= Len(stream)
    BY <1>1, <2>1
  <2> QED
    BY <1>1, <2>1, <2>2 DEF StreamTypes
<1>4. CASE FanIn
  BY <1>1, <1>4 DEF FanIn, StreamTypes
<1>5. ASSUME UNCHANGED <<stream, ticks>>
      PROVE  /\ StreamTypes' /\ Len(stream') >= Len(stream)
             /\ \A i \in 1..Len(stream) : stream'[i] = stream[i]
  BY <1>1, <1>5 DEF StreamTypes
<1>6. CASE \E b \in Brokers : \/ SubmitPaper(b) \/ SubmitExit(b) \/ BatchGet(b)
                              \/ NothingHeld(b)
  BY <1>5, <1>6 DEF SubmitPaper, SubmitExit, BatchGet, NothingHeld, Ask
<1>7. CASE \E b \in Brokers : Unanswered(b)
  BY <1>5, <1>7 DEF Unanswered
<1>8. CASE TreasuryDies \/ UNCHANGED vars
  BY <1>5, <1>8 DEF TreasuryDies, vars
<1>9. CASE HandleNextTick \/ HandlePaper \/ HandleExit \/ HandleStates
  BY <1>5, <1>9 DEF HandleNextTick, HandlePaper, HandleExit, HandleStates, Receives
<1> QED
  BY <1>2, <1>3, <1>4, <1>6, <1>7, <1>8, <1>9, Steps

\* The bank's books change only when the treasury handles a message.
LEMMA BankStep ==
    ASSUME Types, BrokersTrue, MailTrue, [Next]_vars
    PROVE  Keeps
<1>1. CASE UNCHANGED bankVars
  BY <1>1, KeepsWhenIdle DEF Types
<1>2. CASE HandleNextTick
  BY <1>2, HeadIsMeant, TickKeeps DEF HandleNextTick, Receives, Types
<1>3. CASE HandlePaper
  BY <1>3, HeadIsMeant, IssueKeeps DEF HandlePaper, Receives, Types
<1>4. CASE HandleExit
  BY <1>4, HeadIsMeant, LeaveKeeps DEF HandleExit, Receives, Types
<1>5. CASE HandleStates
  BY <1>1, <1>5 DEF HandleStates
<1>6. CASE \E b \in Brokers : \/ SubmitPaper(b) \/ SubmitExit(b) \/ BatchGet(b)
                              \/ NothingHeld(b)
  BY <1>1, <1>6 DEF SubmitPaper, SubmitExit, BatchGet, NothingHeld, Ask
<1>7. CASE \E b \in Brokers : Unanswered(b)
  BY <1>1, <1>7 DEF Unanswered
<1>8. CASE Feed \/ SendTick \/ FanIn \/ TreasuryDies \/ UNCHANGED vars
  BY <1>1, <1>8 DEF Feed, SendTick, FanIn, TreasuryDies, vars
<1> QED
  BY <1>2, <1>3, <1>4, <1>5, <1>6, <1>7, <1>8, Steps

-----------------------------------------------------------------------------
(* Brokers hold papers of their own *)

BrokerTrue(b) ==
    /\ bro[b].candle <= Len(stream)
    /\ bro[b].at # "recv" => bro[b].candle > 0
    /\ bro[b].exits \subseteq bro[b].receipts
    /\ bro[b].at = "exit" => bro[b].exits # {}
    /\ bro[b].at \notin {"check", "exit"} => bro[b].exits = {}
    /\ \A i \in bro[b].receipts : i \in 1..Len(papers) /\ papers[i].owner = b

LEMMA StaysTrue ==
    ASSUME Types, BrokersTrue, Keeps, Len(stream') >= Len(stream), StreamTypes',
           NEW b \in Brokers, bro'[b] = bro[b]
    PROVE  BrokerTrue(b)'
<1>1. BrokerTrue(b)
  BY DEF BrokersTrue, BrokerTrue
<1>2. Len(papers) \in Nat /\ Len(papers') \in Nat /\ Len(papers') >= Len(papers)
      /\ \A i \in 1..Len(papers) : papers'[i].owner = papers[i].owner
  BY Issued DEF Types, Keeps, BankTypes
<1>3. Len(stream) \in Nat /\ Len(stream') \in Nat /\ bro[b].candle \in Nat
  BY BrokerIs DEF Types, StreamTypes
<1> QED
  BY <1>1, <1>2, <1>3 DEF BrokerTrue

LEMMA MoverTrue ==
    ASSUME Types, BrokersTrue, Keeps, Len(stream') >= Len(stream), StreamTypes',
           NEW b \in Brokers, Moves(b), BrokerTrue(b)'
    PROVE  BrokerTypes' /\ BrokersTrue'
<1>1. BrokerTypes'
  BY DEF Moves, BrokerTypes, Bro
<1>2. \A c \in Brokers : BrokerTrue(c)'
  BY StaysTrue DEF Moves
<1> QED
  BY <1>1, <1>2 DEF BrokerTrue, BrokersTrue

LEMMA BrokersStep ==
    ASSUME Types, BrokersTrue, MailTrue, [Next]_vars
    PROVE  BrokerTypes' /\ BrokersTrue'
<1>1. /\ Keeps /\ StreamTypes' /\ Len(stream') >= Len(stream)
      /\ Len(stream) \in Nat /\ Len(stream') \in Nat
      /\ Len(papers) \in Nat /\ Len(papers') \in Nat /\ Len(papers') >= Len(papers)
      /\ \A i \in 1..Len(papers) : papers'[i].owner = papers[i].owner
  BY BankStep, StreamGrows, Issued DEF Types, StreamTypes, Keeps, BankTypes
<1>2. \A b \in Brokers : /\ BrokerTrue(b) /\ bro[b].candle \in Nat
                         /\ bro[b].candle <= Len(stream')
  BY <1>1, BrokerIs DEF BrokerTrue, BrokersTrue, Types
<1>3. CASE UNCHANGED bro
  <2>1. \A b \in Brokers : BrokerTrue(b)'
    BY <1>1, <1>3, StaysTrue
  <2> QED
    BY <1>3, <2>1 DEF BrokerTrue, BrokersTrue, Types, BrokerTypes
<1>4. ASSUME NEW b \in Brokers, GetsExit(b), bro[b].at # "recv"
      PROVE  BrokerTypes' /\ BrokersTrue'
  <2>1. /\ Moves(b) /\ bro'[b].at = "check" /\ bro'[b].candle = bro[b].candle
        /\ bro'[b].receipts = bro[b].receipts
        /\ bro'[b].exits \subseteq bro[b].exits
    BY <1>4, LeavingIsTaken
  <2>2. BrokerTrue(b)'
    BY <1>1, <1>2, <1>4, <2>1 DEF BrokerTrue
  <2> QED
    BY <1>1, <2>1, <2>2, MoverTrue
<1>5. ASSUME NEW b \in Brokers, NEW states, GetsStates(b, states),
             bro[b].at = "states"
      PROVE  BrokerTypes' /\ BrokersTrue'
  <2>1. /\ Moves(b) /\ bro'[b].at = "recv" /\ bro'[b].candle = bro[b].candle
        /\ bro'[b].receipts \subseteq bro[b].receipts
        /\ bro'[b].exits = bro[b].exits
    BY <1>5, StatesAreTaken
  <2>2. BrokerTrue(b)'
    BY <1>1, <1>2, <1>5, <2>1 DEF BrokerTrue
  <2> QED
    BY <1>1, <2>1, <2>2, MoverTrue
<1>6. ASSUME NEW b \in Brokers, NEW issued \in SUBSET Nat, GetsPaper(b, issued),
             bro[b].at # "recv",
             \A i \in issued : i \in 1..Len(papers') /\ papers'[i].owner = b
      PROVE  BrokerTypes' /\ BrokersTrue'
  <2>1. /\ Moves(b) /\ bro'[b].at = "check" /\ bro'[b].candle = bro[b].candle
        /\ bro'[b].receipts = bro[b].receipts \cup issued
        /\ bro'[b].exits \subseteq bro'[b].receipts
    BY <1>6, PaperIsTaken
  <2>3. \A i \in bro'[b].receipts : i \in 1..Len(papers') /\ papers'[i].owner = b
    <3>1. \A i \in bro[b].receipts :
             i \in 1..Len(papers) /\ papers[i].owner = b
      BY <1>2 DEF BrokerTrue
    <3>2. \A i \in bro[b].receipts :
             i \in 1..Len(papers') /\ papers'[i].owner = b
      BY <1>1, <3>1
    <3> QED
      BY <1>6, <2>1, <3>2
  <2>4. bro[b].candle > 0
    BY <1>2, <1>6 DEF BrokerTrue
  <2>2. BrokerTrue(b)'
    BY <1>2, <2>1, <2>3, <2>4 DEF BrokerTrue
  <2> QED
    BY <1>1, <2>1, <2>2, MoverTrue
<1>7. CASE \E b \in Brokers : \/ SubmitPaper(b) \/ SubmitExit(b) \/ BatchGet(b)
                              \/ NothingHeld(b)
  <2>1. PICK b \in Brokers : SubmitPaper(b) \/ SubmitExit(b) \/ BatchGet(b)
                             \/ NothingHeld(b)
    BY <1>7
  <2>2. /\ Moves(b)
        /\ bro'[b].at = "recv" \/ bro'[b].candle > 0
        /\ bro'[b].candle <= Len(stream)
        /\ bro'[b].receipts = bro[b].receipts /\ bro'[b].exits = bro[b].exits
        /\ bro'[b].at = "exit" => bro[b].exits # {}
        /\ bro'[b].at \in {"recv", "paper", "states"} => bro[b].exits = {}
        /\ bro'[b].at \in {"recv", "paper", "exit", "states"}
    BY <2>1, AskIsMade
  <2>3. bro'[b].candle \in Nat
    BY <2>2 DEF Moves, Bro
  <2>4. BrokerTrue(b)'
    BY <1>1, <1>2, <2>2, <2>3 DEF BrokerTrue
  <2> QED
    BY <1>1, <2>2, <2>4, MoverTrue
<1>8. CASE \E b \in Brokers : Unanswered(b)
  <2>1. PICK b \in Brokers : Unanswered(b)
    BY <1>8
  <2>2. CASE bro[b].at = "paper" /\ GetsPaper(b, {})
    BY <1>6, <2>2
  <2>3. CASE bro[b].at = "exit" /\ GetsExit(b)
    BY <1>4, <2>3
  <2>4. CASE bro[b].at = "states" /\ GetsStates(b, <<>>)
    BY <1>5, <2>4
  <2> QED
    BY <2>1, <2>2, <2>3, <2>4 DEF Unanswered
<1>9. CASE HandlePaper
  <2> DEFINE b == Head(mail).from
  <2>1. b \in Brokers /\ bro[b].at = "paper" /\ Head(mail).price \in Nat \ {0}
    BY <1>9, HeadIsMeant DEF HandlePaper, Receives
  <2>2. IssuePaper(b, Head(mail).price) /\ GetsPaper(b, {Len(papers) + 1})
    BY <1>9 DEF HandlePaper
  <2>3. Len(papers') = Len(papers) + 1 /\ papers'[Len(papers) + 1].owner = b
    BY <2>1, <2>2, IssueKeeps DEF Types
  <2>4. {Len(papers) + 1} \in SUBSET Nat
        /\ \A i \in {Len(papers) + 1} : i \in 1..Len(papers') /\ papers'[i].owner = b
    BY <1>1, <2>3
  <2> HIDE DEF b
  <2> QED
    BY <1>6, <2>1, <2>2, <2>4
<1>10. CASE HandleExit
  BY <1>4, <1>10, HeadIsMeant DEF HandleExit, Receives
<1>11. CASE HandleStates
  BY <1>5, <1>11, HeadIsMeant DEF HandleStates, Receives
<1>12. CASE Feed \/ SendTick \/ FanIn \/ TreasuryDies \/ UNCHANGED vars
            \/ HandleNextTick
  BY <1>3, <1>12 DEF Feed, SendTick, FanIn, TreasuryDies, vars, HandleNextTick
<1> QED
  BY <1>7, <1>8, <1>9, <1>10, <1>11, <1>12, Steps

-----------------------------------------------------------------------------
(* What waits in the mailbox *)

\* A message stays meant as long as its sender waits.
LEMMA StaysMeant ==
    ASSUME Types, BrokersTrue, NEW m \in Message, Meant(m),
           StreamTypes', Len(stream') >= Len(stream),
           \A i \in 1..Len(stream) : stream'[i] = stream[i],
           m.kind # "tick" => bro'[m.from] = bro[m.from]
    PROVE  Meant(m)'
<1>1. Len(stream) \in Nat /\ Len(stream') \in Nat
  BY DEF Types, StreamTypes
<1>2. CASE m.kind = "tick"
  BY <1>1, <1>2 DEF Meant
<1>3. CASE m.kind # "tick"
  <2>1. m.from \in Brokers /\ bro'[m.from] = bro[m.from]
        /\ bro[m.from].at = m.kind /\ m.kind \in {"paper", "exit", "states"}
    BY <1>3, Senders DEF Meant
  <2>2. bro[m.from].candle \in 1..Len(stream)
    BY <1>1, <2>1, BrokerIs DEF Types, BrokersTrue
  <2>3. Close(m.from)' = Close(m.from)
    BY <2>1, <2>2 DEF Close
  <2>4. Oldest(bro'[m.from].exits) = Oldest(bro[m.from].exits)
    BY <2>1
  <2> QED
    BY <1>3, <2>1, <2>3, <2>4 DEF Meant
<1> QED
  BY <1>2, <1>3

\* Whoever waits for no answer has no request in the mailbox.
LEMMA NotInMail ==
    ASSUME Types, MailTrue, NEW b \in Brokers, bro[b].at \in {"recv", "check"}
    PROVE  \A m \in Message : InMail(m) /\ m.kind # "tick" => m.from # b
<1> SUFFICES ASSUME NEW m \in Message, InMail(m), m.kind # "tick", m.from = b
             PROVE  FALSE
  OBVIOUS
<1>1. Meant(m)
  BY DEF MailTrue
<1>2. m.kind \in {"paper", "exit", "states"} /\ bro[b].at = m.kind
  BY <1>1, Senders DEF Meant
<1> QED
  BY <1>2

LEMMA MailKept ==
    ASSUME Types, BrokersTrue, MailTrue, [Next]_vars, mail' = mail,
           gone' = gone,
           \A m \in Message :
              InMail(m) /\ m.kind # "tick" => bro'[m.from] = bro[m.from]
    PROVE  mail' \in Seq(Message) /\ MailTrue'
<1>1. \A m \in Message : InMail(m) => Meant(m)'
  BY StreamGrows, StaysMeant DEF MailTrue
<1>2. \A m \in Message : InMail(m)' => InMail(m)
  BY DEF InMail
<1>3. \A i, j \in 1..Len(mail) :
         i # j /\ mail[i].kind # "tick" /\ mail[j].kind # "tick" =>
            mail[i].from # mail[j].from
  BY DEF MailTrue
<1> QED
  BY <1>1, <1>2, <1>3 DEF MailTrue, Types

LEMMA MailGrows ==
    ASSUME Types, BrokersTrue, MailTrue, [Next]_vars, ~gone, gone' = gone,
           NEW x \in Message, mail' = Append(mail, x), Meant(x)',
           \A m \in Message :
              InMail(m) /\ m.kind # "tick" =>
                 /\ bro'[m.from] = bro[m.from]
                 /\ x.kind # "tick" => m.from # x.from
    PROVE  mail' \in Seq(Message) /\ MailTrue'
<1>1. \A m \in Message : InMail(m) => Meant(m)'
  BY StreamGrows, StaysMeant DEF MailTrue
<1>2. /\ Len(mail) \in Nat /\ Len(mail') = Len(mail) + 1
      /\ mail' \in Seq(Message)
      /\ \A i \in 1..Len(mail) : mail'[i] = mail[i] /\ mail[i] \in Message
      /\ mail'[Len(mail) + 1] = x
  BY AppendToMail DEF Types
<1>3. \A i \in 1..Len(mail') : i \in 1..Len(mail) \/ i = Len(mail) + 1
  BY <1>2
<1>4. \A m \in Message : InMail(m)' => InMail(m) \/ m = x
  BY <1>2, <1>3 DEF InMail
<1>5. \A i, j \in 1..Len(mail') :
         i # j /\ mail'[i].kind # "tick" /\ mail'[j].kind # "tick" =>
            mail'[i].from # mail'[j].from
  <2>1. \A i, j \in 1..Len(mail) :
           i # j /\ mail[i].kind # "tick" /\ mail[j].kind # "tick" =>
              mail[i].from # mail[j].from
    BY DEF MailTrue
  <2>2. \A i \in 1..Len(mail) :
           mail[i].kind # "tick" /\ x.kind # "tick" => mail[i].from # x.from
    BY <1>2 DEF InMail
  <2> QED
    BY <1>2, <1>3, <2>1, <2>2
<1> QED
  BY <1>1, <1>2, <1>4, <1>5 DEF MailTrue

\* Serving the oldest message lets its sender go on.
LEMMA MailShrinks ==
    ASSUME Types, BrokersTrue, MailTrue, [Next]_vars, ~gone, gone' = gone,
           mail # <<>>, mail' = Tail(mail),
           \A c \in Brokers : Head(mail).kind = "tick" \/ c # Head(mail).from =>
              bro'[c] = bro[c]
    PROVE  mail' \in Seq(Message) /\ MailTrue'
<1>1. /\ Head(mail) = mail[1] /\ Len(mail) \in Nat \ {0}
      /\ mail' \in Seq(Message) /\ Len(mail') = Len(mail) - 1
      /\ \A i \in 1..Len(mail') : mail'[i] = mail[i + 1]
  BY HeadOfMail
<1>2. \A i \in 1..Len(mail') : i + 1 \in 1..Len(mail) /\ i + 1 # 1
  BY <1>1
<1>3. \A i, j \in 1..Len(mail) :
         i # j /\ mail[i].kind # "tick" /\ mail[j].kind # "tick" =>
            mail[i].from # mail[j].from
  BY DEF MailTrue
<1>4. \A m \in Message : InMail(m)' => Meant(m)'
  <2> SUFFICES ASSUME NEW m \in Message, InMail(m)' PROVE Meant(m)'
    OBVIOUS
  <2>1. PICK i \in 1..Len(mail') : mail'[i] = m
    BY DEF InMail
  <2>2. m = mail[i + 1] /\ i + 1 \in 1..Len(mail) /\ 1 \in 1..Len(mail)
        /\ i + 1 # 1
    BY <1>1, <1>2, <2>1
  <2>3. Meant(m)
    BY <2>2 DEF InMail, MailTrue
  <2>4. m.kind # "tick" => m.from \in Brokers
    BY Senders
  <2>5. m.kind # "tick" /\ Head(mail).kind # "tick" => m.from # Head(mail).from
    BY <1>1, <1>3, <2>2
  <2>6. m.kind # "tick" => bro'[m.from] = bro[m.from]
    BY <2>4, <2>5
  <2> QED
    BY <2>3, <2>6, StreamGrows, StaysMeant
<1>5. \A i, j \in 1..Len(mail') :
         i # j /\ mail'[i].kind # "tick" /\ mail'[j].kind # "tick" =>
            mail'[i].from # mail'[j].from
  <2> SUFFICES ASSUME NEW i \in 1..Len(mail'), NEW j \in 1..Len(mail'), i # j,
                      mail'[i].kind # "tick", mail'[j].kind # "tick"
               PROVE  mail'[i].from # mail'[j].from
    OBVIOUS
  <2>1. i + 1 # j + 1 /\ i + 1 \in 1..Len(mail) /\ j + 1 \in 1..Len(mail)
        /\ mail'[i] = mail[i + 1] /\ mail'[j] = mail[j + 1]
    BY <1>1, <1>2
  <2> QED
    BY <1>3, <2>1
<1> QED
  BY <1>1, <1>4, <1>5 DEF MailTrue

\* A request joins the mailbox with its sender's wait, if anyone is there.
LEMMA Asked ==
    ASSUME Types, BrokersTrue, MailTrue, [Next]_vars,
           NEW b \in Brokers, bro[b].at \in {"recv", "check"}, Moves(b),
           NEW x \in Message, x.kind # "tick", x.from = b, Meant(x)',
           Post(x), gone' = gone
    PROVE  mail' \in Seq(Message) /\ MailTrue'
<1>1. \A m \in Message :
         InMail(m) /\ m.kind # "tick" =>
            m.from # b /\ m.from \in Brokers /\ bro'[m.from] = bro[m.from]
  BY NotInMail, Senders DEF Moves
<1>2. gone \in BOOLEAN \/ gone \notin BOOLEAN
  OBVIOUS
<1>3. CASE gone
  <2>1. mail' = mail
    BY <1>3 DEF Post
  <2> QED
    BY <1>1, <2>1, MailKept
<1>4. CASE ~gone
  <2>1. mail' = Append(mail, x)
    BY <1>4 DEF Post
  <2> QED
    BY <1>1, <1>4, <2>1, MailGrows
<1> QED
  BY <1>3, <1>4

LEMMA MailStep ==
    ASSUME Types, BrokersTrue, MailTrue, [Next]_vars
    PROVE  mail' \in Seq(Message) /\ MailTrue'
<1>1. CASE UNCHANGED <<mail, bro, gone>>
  BY <1>1, MailKept
<1>2. CASE FanIn
  <2> DEFINE sent == [kind |-> "tick", candle |-> ticks.sent]
  <2>1. /\ Post(sent) /\ bro' = bro /\ gone' = gone /\ stream' = stream
        /\ ticks.posted < ticks.sent
    BY <1>2 DEF FanIn
  <2>2. ticks.sent \in 1..Len(stream) /\ ticks.sent \in Nat
    BY <2>1 DEF Types, StreamTypes
  <2>31. sent \in Message /\ sent.kind = "tick" /\ sent.candle = ticks.sent
    BY <2>2 DEF Message
  <2> HIDE DEF sent
  <2>3. PICK x \in Message : x = sent /\ x.kind = "tick" /\ x.candle = ticks.sent
    BY <2>31
  <2>4. Meant(x)'
    BY <2>1, <2>2, <2>3 DEF Meant, Types
  <2>5. CASE gone
    <3>1. mail' = mail
      BY <2>1, <2>5 DEF Post
    <3> QED
      BY <1>1, <2>1, <3>1
  <2>6. CASE ~gone
    <3>1. mail' = Append(mail, x)
      BY <2>1, <2>3, <2>6 DEF Post
    <3> QED
      BY <2>1, <2>3, <2>4, <2>6, <3>1, MailGrows
  <2> QED
    BY <2>5, <2>6
<1>3. ASSUME NEW b \in Brokers, SubmitPaper(b)
      PROVE  mail' \in Seq(Message) /\ MailTrue'
  <2> DEFINE sent == [kind |-> "paper", from |-> b,
                   price |-> stream[bro[b].candle + 1].close]
  <2>1. /\ bro' = [bro EXCEPT ![b].at = "paper", ![b].candle = @ + 1]
        /\ bro[b].at = "recv" /\ bro[b].candle < Len(stream)
        /\ Post(sent) /\ gone' = gone
    BY <1>3 DEF SubmitPaper, Ask
  <2>2. bro[b].candle + 1 \in 1..Len(stream)
    BY <2>1, BrokerIs DEF Types, StreamTypes
  <2>3. stream[bro[b].candle + 1].close \in Nat \ {0}
    BY <2>2, Candle
  <2>41. sent \in Message /\ sent.kind = "paper" /\ sent.from = b /\ sent.price > 0
    BY <2>3 DEF Message
  <2> HIDE DEF sent
  <2>4. PICK x \in Message : x = sent /\ x.kind = "paper" /\ x.from = b /\ x.price > 0
    BY <2>41
  <2>5. Moves(b)
    BY <1>3, AskIsMade
  <2>6. bro'[b].at = "paper"
    BY <2>1 DEF Types, BrokerTypes
  <2>7. Meant(x)'
    BY <2>4, <2>6 DEF Meant
  <2> QED
    BY <2>1, <2>4, <2>5, <2>7, Asked
<1>4. ASSUME NEW b \in Brokers, SubmitExit(b)
      PROVE  mail' \in Seq(Message) /\ MailTrue'
  <2> DEFINE sent == [kind |-> "exit", from |-> b, id |-> Oldest(bro[b].exits),
                   price |-> Close(b)]
  <2>1. /\ bro' = [bro EXCEPT ![b].at = "exit"]
        /\ bro[b].at = "check" /\ bro[b].exits # {}
        /\ Post(sent) /\ gone' = gone /\ stream' = stream
    BY <1>4 DEF SubmitExit, Ask
  <2>2. bro[b].candle \in 1..Len(stream) /\ bro[b].exits \in SUBSET Nat
    BY <2>1, BrokerIs DEF Types, StreamTypes, BrokersTrue
  <2>3. Close(b) \in Nat /\ Oldest(bro[b].exits) \in Nat
    BY <2>1, <2>2, Candle, OldestIsMember DEF Close
  <2>41. /\ sent \in Message /\ sent.kind = "exit" /\ sent.from = b
         /\ sent.id = Oldest(bro[b].exits) /\ sent.price = Close(b)
    BY <2>3 DEF Message
  <2> HIDE DEF sent
  <2>4. PICK x \in Message :
           /\ x = sent /\ x.kind = "exit" /\ x.from = b
           /\ x.id = Oldest(bro[b].exits) /\ x.price = Close(b)
    BY <2>41
  <2>5. Moves(b)
    BY <1>4, AskIsMade
  <2>6. bro'[b] = [bro[b] EXCEPT !.at = "exit"]
    BY <2>1 DEF Types, BrokerTypes
  <2>7. bro'[b].at = "exit" /\ bro'[b].exits = bro[b].exits
        /\ bro'[b].candle = bro[b].candle
    BY <2>6, BrokerIs DEF Bro, Types
  <2>8. Close(b)' = Close(b)
    BY <2>1, <2>7 DEF Close
  <2>9. Oldest(bro'[b].exits) = Oldest(bro[b].exits)
    BY <2>7
  <2>10. Meant(x)'
    BY <2>4, <2>7, <2>8, <2>9 DEF Meant
  <2> QED
    BY <2>1, <2>4, <2>5, <2>10, Asked
<1>5. ASSUME NEW b \in Brokers, BatchGet(b)
      PROVE  mail' \in Seq(Message) /\ MailTrue'
  <2> DEFINE sent == [kind |-> "states", from |-> b, ids |-> bro[b].receipts]
  <2>1. /\ bro' = [bro EXCEPT ![b].at = "states"]
        /\ bro[b].at = "check" /\ Post(sent) /\ gone' = gone
    BY <1>5 DEF BatchGet, Ask
  <2>21. sent \in Message /\ sent.kind = "states" /\ sent.from = b
         /\ sent.ids = bro[b].receipts
    BY BrokerIs DEF Message, Types
  <2> HIDE DEF sent
  <2>2. PICK x \in Message : x = sent /\ x.kind = "states" /\ x.from = b
                             /\ x.ids = bro[b].receipts
    BY <2>21
  <2>3. Moves(b) /\ bro'[b].receipts = bro[b].receipts
    BY <1>5, AskIsMade
  <2>4. bro'[b].at = "states"
    BY <2>1 DEF Types, BrokerTypes
  <2>5. Meant(x)'
    BY <2>2, <2>3, <2>4 DEF Meant
  <2> QED
    BY <2>1, <2>2, <2>3, <2>5, Asked
<1>6. ASSUME NEW b \in Brokers, NothingHeld(b)
      PROVE  mail' \in Seq(Message) /\ MailTrue'
  <2>1. mail' = mail /\ gone' = gone /\ Moves(b) /\ bro[b].at = "check"
    BY <1>6, AskIsMade DEF NothingHeld
  <2>2. \A m \in Message :
           InMail(m) /\ m.kind # "tick" => bro'[m.from] = bro[m.from]
    BY <2>1, NotInMail, Senders DEF Moves
  <2> QED
    BY <2>1, <2>2, MailKept
<1>7. CASE (\E b \in Brokers : Unanswered(b)) \/ TreasuryDies
  <2>1. mail' = <<>>
    BY <1>7 DEF Unanswered, TreasuryDies, MailTrue
  <2> QED
    BY <2>1 DEF MailTrue, InMail
<1>8. CASE HandleNextTick
  <2>1. /\ ~gone /\ gone' = gone /\ mail # <<>> /\ mail' = Tail(mail)
        /\ Head(mail).kind = "tick" /\ bro' = bro
    BY <1>8 DEF HandleNextTick, Receives
  <2> QED
    BY <2>1, MailShrinks
<1>9. CASE HandlePaper \/ HandleExit \/ HandleStates
  <2>1. /\ ~gone /\ gone' = gone /\ mail # <<>> /\ mail' = Tail(mail)
        /\ Head(mail).kind # "tick"
    BY <1>9 DEF HandlePaper, HandleExit, HandleStates, Receives
  <2>2. Head(mail).from \in Brokers
    BY <2>1, HeadIsMeant
  <2>3. Moves(Head(mail).from)
    <3>1. CASE HandlePaper
      <4>1. GetsPaper(Head(mail).from, {Len(papers) + 1})
            /\ {Len(papers) + 1} \in SUBSET Nat
        BY <3>1, Issued DEF HandlePaper, Types
      <4> QED
        BY <2>2, <4>1, PaperIsTaken
    <3>2. CASE HandleExit
      BY <2>2, <3>2, LeavingIsTaken DEF HandleExit
    <3>3. CASE HandleStates
      BY <2>2, <3>3, StatesAreTaken DEF HandleStates
    <3> QED
      BY <1>9, <3>1, <3>2, <3>3
  <2>4. \A c \in Brokers : c # Head(mail).from => bro'[c] = bro[c]
    BY <2>3 DEF Moves
  <2> QED
    BY <2>1, <2>4, MailShrinks
<1>10. CASE Feed \/ SendTick \/ UNCHANGED vars
  BY <1>1, <1>10 DEF Feed, SendTick, vars
<1> QED
  BY <1>2, <1>3, <1>4, <1>5, <1>6, <1>7, <1>8, <1>9, <1>10, Steps

LEMMA TypesStep ==
    ASSUME Types, BrokersTrue, MailTrue, [Next]_vars
    PROVE  Types'
BY BankStep, StreamGrows, BrokersStep, MailStep DEF Types, Keeps

-----------------------------------------------------------------------------
(* Deadlines, and what has been learned *)

\* The books change in four ways only.
LEMMA BooksChange ==
    ASSUME [Next]_vars
    PROVE  \/ UNCHANGED bankVars
           \/ HandleNextTick \/ HandlePaper \/ HandleExit
<1>1. CASE \E b \in Brokers : \/ SubmitPaper(b) \/ SubmitExit(b) \/ BatchGet(b)
                              \/ NothingHeld(b)
  BY <1>1 DEF SubmitPaper, SubmitExit, BatchGet, NothingHeld, Ask
<1>2. CASE \E b \in Brokers : Unanswered(b)
  BY <1>2 DEF Unanswered
<1>3. CASE Feed \/ SendTick \/ FanIn \/ TreasuryDies \/ UNCHANGED vars
           \/ HandleStates
  BY <1>3 DEF Feed, SendTick, FanIn, TreasuryDies, vars, bankVars, HandleStates
<1> QED
  BY <1>1, <1>2, <1>3, Steps

LEMMA DeadlinesStep ==
    ASSUME Types, BrokersTrue, MailTrue, DeadlinesKept, [Next]_vars
    PROVE  DeadlinesKept'
<1>1. /\ Len(papers) \in Nat /\ DOMAIN papers = 1..Len(papers)
      /\ Len(papers') \in Nat /\ DOMAIN papers' = 1..Len(papers')
      /\ \A i \in 1..Len(papers) : papers[i].state = "Active" =>
            \/ clock < papers[i].deadline
            \/ papers[i].entry = clock /\ papers[i].deadline = clock
  BY BankStep, Issued DEF Types, Keeps, BankTypes, DeadlinesKept
<1>2. CASE UNCHANGED bankVars
  BY <1>2 DEF DeadlinesKept, bankVars
<1>3. CASE HandleNextTick
  <2> DEFINE m == Head(mail)
  <2>1. HandleTick(m.candle, stream[m.candle].atr) /\ mail # <<>> /\ m.kind = "tick"
    BY <1>3 DEF HandleNextTick, Receives
  <2>2. m.candle \in Nat /\ stream[m.candle].atr \in Nat
    BY <2>1, HeadIsMeant DEF Types, StreamTypes
  <2> HIDE DEF m
  <2>3. /\ Len(papers') = Len(papers) /\ clock' = m.candle
        /\ \A i \in 1..Len(papers) :
              /\ papers'[i].deadline = papers[i].deadline
              /\ papers'[i].state = "Active" => m.candle < papers[i].deadline
    BY <2>1, <2>2, TickKeeps DEF Types
  <2> QED
    BY <1>1, <2>3 DEF DeadlinesKept
<1>4. CASE HandlePaper
  <2> DEFINE m == Head(mail)
  <2>1. IssuePaper(m.from, m.price) /\ mail # <<>> /\ m.kind = "paper"
    BY <1>4 DEF HandlePaper, Receives
  <2>2. m.from \in Brokers /\ m.price \in Nat \ {0}
    BY <2>1, HeadIsMeant
  <2> HIDE DEF m
  <2> DEFINE new == papers'[Len(papers) + 1]
  <2>3. /\ Len(papers') = Len(papers) + 1
        /\ \A i \in 1..Len(papers) : papers'[i] = papers[i]
        /\ new.entry = clock /\ new.deadline \in Nat /\ new.deadline >= clock
    BY <2>1, <2>2, IssueKeeps DEF Types
  <2>4. clock' = clock /\ clock \in Nat
    BY <2>1 DEF IssuePaper, Types, BankTypes
  <2>5. \/ clock' < new.deadline
        \/ new.entry = clock' /\ new.deadline = clock'
    BY <2>3, <2>4
  <2> SUFFICES ASSUME NEW i \in 1..Len(papers'), papers'[i].state = "Active"
               PROVE  \/ clock' < papers'[i].deadline
                      \/ papers'[i].entry = clock' /\ papers'[i].deadline = clock'
    BY <1>1 DEF DeadlinesKept
  <2>6. CASE i \in 1..Len(papers)
    BY <1>1, <2>3, <2>4, <2>6
  <2>7. CASE i = Len(papers) + 1
    BY <2>5, <2>7
  <2> QED
    BY <1>1, <2>3, <2>6, <2>7
<1>5. CASE HandleExit
  <2> DEFINE m == Head(mail)
  <2>1. ResolveGrace(m.id, m.price) /\ mail # <<>> /\ m.kind = "exit"
    BY <1>5 DEF HandleExit, Receives
  <2>2. m.id \in 1..Len(papers) /\ m.price \in Nat
    BY <2>1, HeadIsMeant
  <2> HIDE DEF m
  <2>3. /\ Len(papers') = Len(papers)
        /\ \A i \in 1..Len(papers) :
              /\ papers'[i].deadline = papers[i].deadline
              /\ papers'[i].entry = papers[i].entry
              /\ papers'[i] # papers[i] => papers'[i].state = "Grace"
    BY <2>1, <2>2, LeaveKeeps DEF Types
  <2>4. clock' = clock
    BY <2>1 DEF ResolveGrace
  <2> QED
    BY <1>1, <2>3, <2>4 DEF DeadlinesKept
<1> QED
  BY <1>2, <1>3, <1>4, <1>5, BooksChange

\* A proposer without a failure has learned nothing.
UntaughtBroker(b) ==
    record[b].failed = 0 =>
        /\ \A i \in 1..Len(papers) :
              papers[i].owner = b => papers[i].state = "Active"
        /\ record[b].survived = 0
        /\ bro[b].grace = 0 /\ bro[b].violence = 0
        /\ bro[b].exits = {}

LEMMA UntaughtStep ==
    ASSUME Types, BrokersTrue, MailTrue, Untaught, [Next]_vars
    PROVE  Untaught'
<1> SUFFICES ASSUME NEW b \in Brokers PROVE UntaughtBroker(b)'
  BY DEF Untaught, UntaughtBroker
<1>1. /\ UntaughtBroker(b) /\ Len(papers) \in Nat
      /\ record[b] \in Record /\ record[b].failed \in Nat
      /\ bro[b].grace \in Nat /\ bro[b].violence \in Nat
  BY Issued, BrokerIs DEF Types, BankTypes, Record, Untaught, UntaughtBroker
\* What the broker knows, if the books of its papers stay as they are or get a
\* new open one.
<1>2. ASSUME record'[b].failed = 0 => record[b].failed = 0,
             record'[b].survived = record[b].survived \/ record[b].failed # 0,
             record[b].failed = 0 => \A i \in 1..Len(papers') :
                papers'[i].owner = b =>
                   \/ papers'[i].state = "Active"
                   \/ i \in 1..Len(papers) /\ papers[i].owner = b
                      /\ papers'[i].state = papers[i].state,
             record[b].failed = 0 =>
                /\ bro'[b].grace = bro[b].grace
                /\ bro'[b].violence = bro[b].violence
                /\ bro'[b].exits = bro[b].exits
      PROVE  UntaughtBroker(b)'
  BY <1>1, <1>2 DEF UntaughtBroker
<1>3. ASSUME UNCHANGED bankVars,
             record[b].failed = 0 =>
                /\ bro'[b].grace = bro[b].grace
                /\ bro'[b].violence = bro[b].violence
                /\ bro'[b].exits = bro[b].exits
      PROVE  UntaughtBroker(b)'
  BY <1>1, <1>3 DEF UntaughtBroker, bankVars
\* An answer to this broker, given that a failure is behind what it acts on.
<1>4. ASSUME NEW issued \in SUBSET Nat, GetsPaper(b, issued), record[b].failed = 0
      PROVE  /\ bro'[b].grace = bro[b].grace
             /\ bro'[b].violence = bro[b].violence
             /\ bro'[b].exits = bro[b].exits
  <2>1. /\ bro'[b].exits # {} => bro[b].grace > 0 \/ bro[b].violence > 0
        /\ bro'[b].grace = bro[b].grace /\ bro'[b].violence = bro[b].violence
    BY <1>4, PaperIsTaken
  <2>2. bro[b].grace = 0 /\ bro[b].violence = 0 /\ bro[b].exits = {}
    BY <1>1, <1>4 DEF UntaughtBroker
  <2>3. bro'[b].exits = {}
    BY <2>1, <2>2
  <2> QED
    BY <2>1, <2>2, <2>3
<1>5. ASSUME NEW c \in Brokers, c # b, Moves(c) PROVE bro'[b] = bro[b]
  BY <1>5 DEF Moves
<1>6. CASE \E c \in Brokers : \/ SubmitPaper(c) \/ SubmitExit(c) \/ BatchGet(c)
                              \/ NothingHeld(c)
  <2>1. PICK c \in Brokers : SubmitPaper(c) \/ SubmitExit(c) \/ BatchGet(c)
                             \/ NothingHeld(c)
    BY <1>6
  <2>2. UNCHANGED bankVars
    BY <2>1 DEF SubmitPaper, SubmitExit, BatchGet, NothingHeld, Ask
  <2>3. /\ Moves(c)
        /\ bro'[c].exits = bro[c].exits
        /\ bro'[c].grace = bro[c].grace /\ bro'[c].violence = bro[c].violence
    BY <2>1, AskIsMade
  <2> QED
    BY <1>3, <1>5, <2>2, <2>3
<1>7. CASE \E c \in Brokers : Unanswered(c)
  <2>1. PICK c \in Brokers : Unanswered(c)
    BY <1>7
  <2>2. UNCHANGED bankVars
    BY <2>1 DEF Unanswered
  <2>3. CASE bro[c].at = "paper" /\ GetsPaper(c, {})
    <3>1. Moves(c)
      BY <2>3, PaperIsTaken
    <3> QED
      BY <1>3, <1>4, <1>5, <2>2, <2>3, <3>1
  <2>4. CASE bro[c].at = "exit" /\ GetsExit(c)
    <3>1. /\ Moves(c)
          /\ bro'[c].exits \subseteq bro[c].exits
          /\ bro'[c].grace = bro[c].grace /\ bro'[c].violence = bro[c].violence
      BY <2>4, LeavingIsTaken
    <3>2. bro[c].exits # {}
      BY <2>4 DEF BrokersTrue
    <3> QED
      BY <1>1, <1>3, <1>5, <2>2, <3>1, <3>2 DEF UntaughtBroker
  <2>5. CASE bro[c].at = "states" /\ GetsStates(c, <<>>)
    <3>1. \A id \in bro[c].receipts \cap DOMAIN <<>> : <<>>[id] = "Active"
      OBVIOUS
    <3>2. /\ Moves(c) /\ bro'[c].exits = bro[c].exits
          /\ bro'[c].grace = bro[c].grace /\ bro'[c].violence = bro[c].violence
      BY <2>5, <3>1, StatesAreTaken
    <3> QED
      BY <1>3, <1>5, <2>2, <3>2
  <2> QED
    BY <2>1, <2>3, <2>4, <2>5 DEF Unanswered
<1>8. CASE HandleNextTick
  <2> DEFINE m == Head(mail)
  <2>1. /\ HandleTick(m.candle, stream[m.candle].atr)
        /\ mail # <<>> /\ m.kind = "tick" /\ bro' = bro
    BY <1>8 DEF HandleNextTick, Receives
  <2>2. m.candle \in Nat /\ stream[m.candle].atr \in Nat
    BY <2>1, HeadIsMeant DEF Types, StreamTypes
  <2> HIDE DEF m
  <2>3. /\ Len(papers') = Len(papers)
        /\ \A i \in 1..Len(papers) : papers'[i].owner = papers[i].owner
        /\ record'[b].survived = record[b].survived
        /\ record'[b].failed = 0 =>
              /\ record[b].failed = 0
              /\ \A i \in 1..Len(papers) :
                    papers[i].owner = b => papers'[i].state = papers[i].state
    BY <2>1, <2>2, TickKeeps DEF Types, Keeps
  <2> QED
    BY <1>1, <2>1, <2>3 DEF UntaughtBroker
<1>9. CASE HandlePaper
  <2> DEFINE m == Head(mail)
  <2>1. /\ IssuePaper(m.from, m.price) /\ GetsPaper(m.from, {Len(papers) + 1})
        /\ mail # <<>> /\ m.kind = "paper"
    BY <1>9 DEF HandlePaper, Receives
  <2>2. m.from \in Brokers /\ m.price \in Nat \ {0}
    BY <2>1, HeadIsMeant
  <2> HIDE DEF m
  <2>3. /\ Len(papers') = Len(papers) + 1
        /\ \A i \in 1..Len(papers) : papers'[i] = papers[i]
        /\ papers'[Len(papers) + 1].state = "Active"
    BY <2>1, <2>2, IssueKeeps DEF Types
  <2>4. record'[b].failed = record[b].failed
        /\ record'[b].survived = record[b].survived
    <3>1. record' = [record EXCEPT ![m.from].submitted = @ + 1]
      BY <2>1 DEF IssuePaper
    <3> QED
      BY <1>1, <3>1 DEF Types, BankTypes, Record
  <2>5. {Len(papers) + 1} \in SUBSET Nat
    BY <1>1
  <2>6. Moves(m.from)
    BY <2>1, <2>2, <2>5, PaperIsTaken
  <2>7. record[b].failed = 0 =>
           /\ bro'[b].grace = bro[b].grace
           /\ bro'[b].violence = bro[b].violence
           /\ bro'[b].exits = bro[b].exits
    BY <1>4, <1>5, <2>1, <2>2, <2>5, <2>6
  <2>8. \A i \in 1..Len(papers') :
           \/ papers'[i].state = "Active"
           \/ i \in 1..Len(papers) /\ papers'[i] = papers[i]
    BY <1>1, <2>3
  <2> QED
    BY <1>2, <2>4, <2>7, <2>8
<1>10. CASE HandleExit
  <2> DEFINE m == Head(mail)
  <2>1. /\ ResolveGrace(m.id, m.price) /\ GetsExit(m.from)
        /\ mail # <<>> /\ m.kind = "exit"
    BY <1>10 DEF HandleExit, Receives
  <2>2. /\ m.from \in Brokers /\ m.id \in 1..Len(papers) /\ m.price \in Nat
        /\ m.id \in bro[m.from].exits /\ papers[m.id].owner = m.from
    BY <2>1, HeadIsMeant
  <2> HIDE DEF m
  <2>3. /\ Len(papers') = Len(papers)
        /\ \A i \in 1..Len(papers) : papers'[i].owner = papers[i].owner
        /\ \A i \in 1..Len(papers) : i # m.id => papers'[i] = papers[i]
        /\ record'[b].failed = record[b].failed
        /\ b # papers[m.id].owner => record'[b] = record[b]
    BY <2>1, <2>2, LeaveKeeps DEF Types, Keeps
  <2>4. Moves(m.from)
    BY <2>1, <2>2, LeavingIsTaken
  <2>5. CASE b = m.from
    BY <1>1, <2>2, <2>3, <2>5 DEF UntaughtBroker
  <2>6. CASE b # m.from
    <3>1. bro'[b] = bro[b] /\ record'[b] = record[b]
      BY <1>5, <2>2, <2>3, <2>4, <2>6
    <3>2. \A i \in 1..Len(papers') : papers'[i].owner = b =>
             i \in 1..Len(papers) /\ papers'[i] = papers[i]
      BY <2>2, <2>3, <2>6
    <3> QED
      BY <1>2, <3>1, <3>2
  <2> QED
    BY <2>5, <2>6
<1>11. CASE HandleStates
  <2> DEFINE m == Head(mail)
             states == [id \in m.ids |-> papers[id].state]
  <2>1. /\ GetsStates(m.from, states) /\ UNCHANGED bankVars
        /\ mail # <<>> /\ m.kind = "states"
    BY <1>11 DEF HandleStates, Receives
  <2>2. m.from \in Brokers
    BY <2>1, HeadIsMeant
  <2>3. DOMAIN states = m.ids /\ \A id \in m.ids : states[id] = papers[id].state
    OBVIOUS
  <2> HIDE DEF m, states
  <2>4. /\ Moves(m.from) /\ bro'[m.from].exits = bro[m.from].exits
        /\ (\A id \in bro[m.from].receipts \cap DOMAIN states :
               states[id] = "Active") =>
              /\ bro'[m.from].grace = bro[m.from].grace
              /\ bro'[m.from].violence = bro[m.from].violence
    BY <2>1, <2>2, StatesAreTaken
  <2>5. CASE b = m.from
    <3>1. record[b].failed = 0 =>
             \A id \in bro[b].receipts \cap DOMAIN states : states[id] = "Active"
      BY <1>1, <2>3 DEF UntaughtBroker, BrokersTrue
    <3> QED
      BY <1>3, <2>1, <2>4, <2>5, <3>1
  <2>6. CASE b # m.from
    BY <1>3, <1>5, <2>1, <2>2, <2>4, <2>6
  <2> QED
    BY <2>5, <2>6
<1>12. CASE Feed \/ SendTick \/ FanIn \/ TreasuryDies \/ UNCHANGED vars
  BY <1>3, <1>12 DEF Feed, SendTick, FanIn, TreasuryDies, vars
<1> QED
  BY <1>6, <1>7, <1>8, <1>9, <1>10, <1>11, <1>12, Steps

-----------------------------------------------------------------------------
(* What has been learned of each outcome *)

\* The learning of one broker, and what it is about.
LearnedBroker(b) ==
    /\ bro[b].grace <= Cardinality(Resolved(b, "Grace"))
    /\ bro[b].violence <= Cardinality(Resolved(b, "Violence"))
    /\ ~gone => /\ bro[b].grace = Cardinality(Resolved(b, "Grace"))
                /\ bro[b].violence = Cardinality(Resolved(b, "Violence"))
                /\ Mine(b, "Active") \subseteq bro[b].receipts

LEMMA ResolvedAreFew ==
    ASSUME Types, NEW b \in Brokers, NEW state
    PROVE  /\ Resolved(b, state) \subseteq 1..Len(papers)
           /\ IsFiniteSet(Resolved(b, state))
           /\ Cardinality(Resolved(b, state)) \in Nat
<1>1. Resolved(b, state) \subseteq 1..Len(papers)
  BY Issued DEF Resolved, Mine, Types
<1> QED
  BY <1>1, FewPapers DEF Types

\* Nothing is learned, and what there is to learn stays what it was.
LEMMA NothingLearned ==
    ASSUME NEW b \in Brokers, LearnedBroker(b),
           bro'[b].grace = bro[b].grace, bro'[b].violence = bro[b].violence,
           Resolved(b, "Grace")' = Resolved(b, "Grace"),
           Resolved(b, "Violence")' = Resolved(b, "Violence"),
           ~gone' => ~gone /\ Mine(b, "Active")' \subseteq bro'[b].receipts
    PROVE  LearnedBroker(b)'
BY DEF LearnedBroker

LEMMA BooksAsBefore ==
    ASSUME NEW b \in Brokers, LearnedBroker(b), papers' = papers,
           bro'[b].grace = bro[b].grace, bro'[b].violence = bro[b].violence,
           bro'[b].receipts = bro[b].receipts,
           ~gone' => ~gone
    PROVE  LearnedBroker(b)'
<1>1. /\ Resolved(b, "Grace")' = Resolved(b, "Grace")
      /\ Resolved(b, "Violence")' = Resolved(b, "Violence")
      /\ Mine(b, "Active")' = Mine(b, "Active")
  BY DEF Resolved, Mine
<1> QED
  BY <1>1 DEF LearnedBroker

\* What the answer tells to be resolved joins what has been.
LEMMA ToldJoins ==
    ASSUME Types, BrokersTrue, NEW b \in Brokers, papers' = papers,
           NEW states, DOMAIN states = bro[b].receipts,
           \A id \in bro[b].receipts : states[id] = papers[id].state,
           bro'[b].receipts = Told(b, states, "Active"),
           NEW state \in {"Grace", "Violence"}
    PROVE  /\ Cardinality(Told(b, states, state)) \in Nat
           /\ Cardinality(Resolved(b, state))' =
                 Cardinality(Resolved(b, state)) + Cardinality(Told(b, states, state))
<1> DEFINE R == Resolved(b, state)
           T == Told(b, states, state)
<1>1. /\ DOMAIN papers = 1..Len(papers)
      /\ \A i \in bro[b].receipts : i \in 1..Len(papers) /\ papers[i].owner = b
  BY Issued DEF Types, BrokersTrue
<1>2. T = {i \in bro[b].receipts : papers[i].state = state}
  BY DEF Told
<1>3. bro'[b].receipts = {i \in bro[b].receipts : papers[i].state = "Active"}
  BY DEF Told
<1>4. Mine(b, state) = {i \in 1..Len(papers) : papers[i].owner = b
                                              /\ papers[i].state = state}
      /\ Mine(b, state)' = Mine(b, state)
  BY <1>1 DEF Mine
<1>5. R' = Mine(b, state)
  BY <1>3, <1>4 DEF Resolved
<1>6. R = Mine(b, state) \ bro[b].receipts
  BY DEF Resolved
<1>7. T \subseteq Mine(b, state) /\ T \subseteq bro[b].receipts
  BY <1>1, <1>2, <1>4
<1>8. Mine(b, state) \cap bro[b].receipts \subseteq T
  BY <1>2, <1>4
<1>9. Mine(b, state) = R \cup T /\ R \cap T = {}
  BY <1>6, <1>7, <1>8
<1>10. /\ IsFiniteSet(R) /\ Cardinality(R) \in Nat
       /\ IsFiniteSet(T) /\ Cardinality(T) \in Nat
  <2>1. T \subseteq 1..Len(papers)
    BY <1>1, <1>7
  <2> QED
    BY <2>1, ResolvedAreFew, FewPapers DEF Types
<1> HIDE DEF T, R
<1>11. Cardinality(R \cup T) = Cardinality(R) + Cardinality(T)
  <2>1. Cardinality(R \cup T)
          = Cardinality(R) + Cardinality(T) - Cardinality(R \cap T)
    BY <1>10, FS_Union
  <2>2. Cardinality(R \cap T) = 0
    BY <1>9, FS_EmptySet
  <2> QED
    BY <1>10, <2>1, <2>2
<1> QED
  BY <1>5, <1>9, <1>10, <1>11 DEF R, T

\* An answer that tells the state of everything that is held.
LEMMA StatesAreLearned ==
    ASSUME Types, BrokersTrue, NEW b \in Brokers, LearnedBroker(b),
           papers' = papers, gone' = gone,
           NEW states, DOMAIN states = bro[b].receipts,
           \A id \in bro[b].receipts : states[id] = papers[id].state,
           GetsStates(b, states)
    PROVE  LearnedBroker(b)'
<1> DEFINE g == Cardinality(Told(b, states, "Grace"))
           v == Cardinality(Told(b, states, "Violence"))
<1>1. /\ bro'[b].receipts = Told(b, states, "Active")
      /\ bro'[b].grace = bro[b].grace + g
      /\ bro'[b].violence = bro[b].violence + v
  BY StatesAreTaken
<1>2. /\ g \in Nat /\ v \in Nat
      /\ Cardinality(Resolved(b, "Grace"))' = Cardinality(Resolved(b, "Grace")) + g
      /\ Cardinality(Resolved(b, "Violence"))'
            = Cardinality(Resolved(b, "Violence")) + v
  BY <1>1, ToldJoins
<1>3. /\ bro[b].grace \in Nat /\ bro[b].violence \in Nat
      /\ Cardinality(Resolved(b, "Grace")) \in Nat
      /\ Cardinality(Resolved(b, "Violence")) \in Nat
  BY BrokerIs, ResolvedAreFew DEF Types
<1>4. ASSUME Mine(b, "Active") \subseteq bro[b].receipts
      PROVE  Mine(b, "Active")' \subseteq bro'[b].receipts
  <2>1. Mine(b, "Active")' = Mine(b, "Active")
    BY DEF Mine
  <2>2. bro'[b].receipts = {i \in bro[b].receipts : papers[i].state = "Active"}
    BY <1>1 DEF Told
  <2>3. \A i \in Mine(b, "Active") : papers[i].state = "Active"
    BY DEF Mine
  <2> QED
    BY <1>4, <2>1, <2>2, <2>3
<1> HIDE DEF g, v
<1>5. /\ bro'[b].grace <= Cardinality(Resolved(b, "Grace"))'
      /\ bro'[b].violence <= Cardinality(Resolved(b, "Violence"))'
  BY <1>1, <1>2, <1>3 DEF LearnedBroker
<1>6. ASSUME ~gone'
      PROVE  /\ bro'[b].grace = Cardinality(Resolved(b, "Grace"))'
             /\ bro'[b].violence = Cardinality(Resolved(b, "Violence"))'
             /\ Mine(b, "Active")' \subseteq bro'[b].receipts
  <2>1. /\ bro[b].grace = Cardinality(Resolved(b, "Grace"))
        /\ bro[b].violence = Cardinality(Resolved(b, "Violence"))
        /\ Mine(b, "Active") \subseteq bro[b].receipts
    BY <1>6 DEF LearnedBroker
  <2> QED
    BY <1>1, <1>2, <1>4, <2>1
<1> QED
  BY <1>5, <1>6 DEF LearnedBroker

\* Without an answer everything that is held is let go, and nothing learned.
LEMMA SilenceTeachesNothing ==
    ASSUME Types, BrokersTrue, NEW b \in Brokers, LearnedBroker(b),
           papers' = papers, gone, gone', GetsStates(b, <<>>)
    PROVE  LearnedBroker(b)'
<1>1. bro'[b].grace = bro[b].grace /\ bro'[b].violence = bro[b].violence
      /\ bro'[b].receipts \subseteq bro[b].receipts
  <2>1. bro[b].receipts \cap DOMAIN <<>> = {}
    OBVIOUS
  <2> QED
    BY <2>1, StatesAreTaken
<1>2. ASSUME NEW state
      PROVE  Cardinality(Resolved(b, state)) <= Cardinality(Resolved(b, state)')
             /\ Cardinality(Resolved(b, state)) \in Nat
             /\ Cardinality(Resolved(b, state)') \in Nat
  <2>1. Mine(b, state)' = Mine(b, state) /\ Mine(b, state) \subseteq 1..Len(papers)
    BY Issued DEF Mine, Types
  <2>2. /\ Resolved(b, state) \subseteq Resolved(b, state)'
        /\ Resolved(b, state)' \subseteq 1..Len(papers)
    BY <1>1, <2>1 DEF Resolved
  <2>3. IsFiniteSet(Resolved(b, state)')
        /\ Cardinality(Resolved(b, state)') \in Nat
    BY <2>2, FewPapers DEF Types
  <2> QED
    BY <2>2, <2>3, FS_Subset, ResolvedAreFew
<1>3. bro[b].grace \in Nat /\ bro[b].violence \in Nat
  BY BrokerIs DEF Types
<1>4. /\ bro[b].grace <= Cardinality(Resolved(b, "Grace"))
      /\ bro[b].violence <= Cardinality(Resolved(b, "Violence"))
  BY DEF LearnedBroker
<1>5. /\ bro'[b].grace <= Cardinality(Resolved(b, "Grace")')
      /\ bro'[b].violence <= Cardinality(Resolved(b, "Violence")')
  BY <1>1, <1>2, <1>3, <1>4
<1> QED
  BY <1>5 DEF LearnedBroker

\* The bank resolves only what is held, and everyone holds what is new.
LEMMA ResolvingIsUnlearned ==
    ASSUME Types, BrokersTrue, Keeps, NEW b \in Brokers, LearnedBroker(b),
           ~gone, ~gone',
           bro'[b].grace = bro[b].grace, bro'[b].violence = bro[b].violence,
           bro[b].receipts \subseteq bro'[b].receipts,
           \A i \in bro'[b].receipts :
              i \in bro[b].receipts \/ i \notin 1..Len(papers),
           \A i \in 1..Len(papers) :
              papers'[i].state # papers[i].state => papers[i].state = "Active",
           \A i \in 1..Len(papers') :
              i \notin 1..Len(papers) =>
                 /\ papers'[i].owner = b => i \in bro'[b].receipts
                 /\ papers'[i].state = "Active"
    PROVE  LearnedBroker(b)'
<1>1. /\ DOMAIN papers = 1..Len(papers) /\ DOMAIN papers' = 1..Len(papers')
      /\ 1..Len(papers) \subseteq 1..Len(papers')
      /\ \A i \in 1..Len(papers) : papers'[i].owner = papers[i].owner
  BY Issued DEF Types, Keeps, BankTypes
<1>2. \A i \in 1..Len(papers) :
         papers[i].owner = b /\ papers[i].state = "Active" => i \in bro[b].receipts
  BY <1>1 DEF LearnedBroker, Mine
<1>3. ASSUME NEW state \in {"Grace", "Violence"}
      PROVE  Resolved(b, state)' = Resolved(b, state)
  <2>1. ASSUME NEW i \in Resolved(b, state) PROVE i \in Resolved(b, state)'
    <3>1. /\ i \in 1..Len(papers) /\ papers[i].owner = b
          /\ papers[i].state = state /\ i \notin bro[b].receipts
      BY <1>1, <2>1 DEF Resolved, Mine
    <3>2. papers'[i].state = state /\ papers'[i].owner = b /\ i \in 1..Len(papers')
          /\ i \notin bro'[b].receipts
      BY <1>1, <3>1
    <3> QED
      BY <1>1, <3>2 DEF Resolved, Mine
  <2>2. ASSUME NEW i \in Resolved(b, state)' PROVE i \in Resolved(b, state)
    <3>1. /\ i \in 1..Len(papers') /\ papers'[i].owner = b
          /\ papers'[i].state = state /\ i \notin bro'[b].receipts
      BY <1>1, <2>2 DEF Resolved, Mine
    <3>2. i \in 1..Len(papers) /\ i \notin bro[b].receipts /\ papers[i].owner = b
      BY <1>1, <3>1
    <3>3. papers[i].state = state
      BY <1>2, <3>1, <3>2
    <3> QED
      BY <1>1, <3>2, <3>3 DEF Resolved, Mine
  <2> QED
    BY <2>1, <2>2
<1>4. Mine(b, "Active")' \subseteq bro'[b].receipts
  <2> SUFFICES ASSUME NEW i \in 1..Len(papers'), papers'[i].owner = b,
                      papers'[i].state = "Active"
               PROVE  i \in bro'[b].receipts
    BY <1>1 DEF Mine
  <2>1. CASE i \in 1..Len(papers)
    <3>1. papers[i].owner = b /\ papers[i].state = "Active"
      BY <1>1, <2>1
    <3> QED
      BY <1>2, <2>1, <3>1
  <2>2. CASE i \notin 1..Len(papers)
    BY <2>2
  <2> QED
    BY <2>1, <2>2
<1> QED
  BY <1>3, <1>4, NothingLearned

LEMMA LearnedStep ==
    ASSUME Types, BrokersTrue, MailTrue, OutcomesLearned, [Next]_vars
    PROVE  OutcomesLearned'
<1> SUFFICES ASSUME NEW b \in Brokers PROVE LearnedBroker(b)'
  BY DEF OutcomesLearned, LearnedBroker
<1>1. LearnedBroker(b) /\ Keeps
  BY BankStep DEF OutcomesLearned, LearnedBroker
<1>2. ASSUME NEW c \in Brokers, c # b, Moves(c) PROVE bro'[b] = bro[b]
  BY <1>2 DEF Moves
<1>3. CASE Feed \/ SendTick \/ FanIn \/ TreasuryDies \/ UNCHANGED vars
  BY <1>1, <1>3, BooksAsBefore
  DEF Feed, SendTick, FanIn, TreasuryDies, vars, bankVars
<1>4. CASE \E c \in Brokers : \/ SubmitPaper(c) \/ SubmitExit(c) \/ BatchGet(c)
                              \/ NothingHeld(c)
  <2>1. PICK c \in Brokers : SubmitPaper(c) \/ SubmitExit(c) \/ BatchGet(c)
                             \/ NothingHeld(c)
    BY <1>4
  <2>2. papers' = papers /\ gone' = gone
    BY <2>1 DEF SubmitPaper, SubmitExit, BatchGet, NothingHeld, Ask, bankVars
  <2>3. /\ Moves(c) /\ bro'[c].receipts = bro[c].receipts
        /\ bro'[c].grace = bro[c].grace /\ bro'[c].violence = bro[c].violence
    BY <2>1, AskIsMade
  <2>4. /\ bro'[b].receipts = bro[b].receipts
        /\ bro'[b].grace = bro[b].grace /\ bro'[b].violence = bro[b].violence
    BY <1>2, <2>3
  <2> QED
    BY <1>1, <2>2, <2>4, BooksAsBefore
<1>5. CASE \E c \in Brokers : Unanswered(c)
  <2>1. PICK c \in Brokers : Unanswered(c)
    BY <1>5
  <2>2. gone /\ gone' /\ papers' = papers
    BY <2>1 DEF Unanswered, bankVars
  <2>3. ASSUME Moves(c), bro'[c].receipts = bro[c].receipts,
               bro'[c].grace = bro[c].grace, bro'[c].violence = bro[c].violence
        PROVE  LearnedBroker(b)'
    <3>1. /\ bro'[b].receipts = bro[b].receipts
          /\ bro'[b].grace = bro[b].grace /\ bro'[b].violence = bro[b].violence
      BY <1>2, <2>3
    <3> QED
      BY <1>1, <2>2, <3>1, BooksAsBefore
  <2>4. CASE GetsPaper(c, {})
    <3>1. {} \in SUBSET Nat
      OBVIOUS
    <3>2. /\ Moves(c)
          /\ bro'[c].receipts = bro[c].receipts \cup {}
          /\ bro'[c].grace = bro[c].grace /\ bro'[c].violence = bro[c].violence
      BY <1>1, <2>4, <3>1, PaperIsTaken
    <3>3. bro'[c].receipts = bro[c].receipts
      BY <3>2
    <3> QED
      BY <2>3, <3>2, <3>3
  <2>5. CASE GetsExit(c)
    BY <2>3, <2>5, LeavingIsTaken
  <2>6. CASE GetsStates(c, <<>>)
    <3>1. CASE c = b
      BY <1>1, <2>2, <2>6, <3>1, SilenceTeachesNothing
    <3>2. CASE c # b
      <4>1. bro'[b] = bro[b]
        BY <1>2, <2>6, <3>2, StatesAreTaken
      <4> QED
        BY <1>1, <2>2, <4>1, BooksAsBefore
    <3> QED
      BY <3>1, <3>2
  <2> QED
    BY <2>1, <2>4, <2>5, <2>6 DEF Unanswered
<1>6. CASE HandleNextTick
  <2> DEFINE m == Head(mail)
  <2>1. HandleTick(m.candle, stream[m.candle].atr) /\ mail # <<>>
        /\ m.kind = "tick" /\ bro' = bro /\ ~gone /\ gone' = gone
    BY <1>6 DEF HandleNextTick, Receives
  <2>2. m.candle \in Nat /\ stream[m.candle].atr \in Nat
    BY <2>1, HeadIsMeant DEF Types, StreamTypes
  <2> HIDE DEF m
  <2>3. /\ Len(papers') = Len(papers)
        /\ \A i \in 1..Len(papers) :
              papers'[i].state # papers[i].state => papers[i].state = "Active"
    BY <2>1, <2>2, TickKeeps DEF Types
  <2>4. \A i \in bro[b].receipts : i \in 1..Len(papers)
    BY DEF BrokersTrue
  <2> QED
    BY <1>1, <2>1, <2>3, <2>4, ResolvingIsUnlearned
<1>7. CASE HandlePaper
  <2> DEFINE m == Head(mail)
             n == Len(papers) + 1
  <2>1. /\ IssuePaper(m.from, m.price) /\ mail # <<>> /\ m.kind = "paper"
        /\ ~gone /\ gone' = gone /\ GetsPaper(m.from, {n})
    BY <1>7 DEF HandlePaper, Receives
  <2>2. m.from \in Brokers /\ m.price \in Nat \ {0} /\ n \in Nat
        /\ Len(papers) \in Nat
    BY <2>1, HeadIsMeant, Issued DEF Types
  <2> HIDE DEF m
  <2>3. /\ Len(papers') = n /\ papers'[n].owner = m.from
        /\ papers'[n].state = "Active"
        /\ \A i \in 1..Len(papers) : papers'[i] = papers[i]
    BY <2>1, <2>2, IssueKeeps DEF Types
  <2>4. /\ Moves(m.from) /\ bro'[m.from].receipts = bro[m.from].receipts \cup {n}
        /\ bro'[m.from].grace = bro[m.from].grace
        /\ bro'[m.from].violence = bro[m.from].violence
    <3>1. {n} \in SUBSET Nat
      BY <2>2
    <3> QED
      BY <2>1, <2>2, <3>1, PaperIsTaken
  <2>5. \A i \in 1..Len(papers') : i \notin 1..Len(papers) => i = n
    BY <2>2, <2>3
  <2>6. n \notin 1..Len(papers)
    BY <2>2
  <2>7. /\ bro'[b].grace = bro[b].grace /\ bro'[b].violence = bro[b].violence
        /\ bro'[b].receipts
              = IF b = m.from THEN bro[b].receipts \cup {n} ELSE bro[b].receipts
    BY <1>2, <2>2, <2>4
  <2> HIDE DEF n
  <2> QED
    BY <1>1, <2>1, <2>3, <2>5, <2>6, <2>7, ResolvingIsUnlearned
<1>8. CASE HandleExit
  <2> DEFINE m == Head(mail)
  <2>1. /\ ResolveGrace(m.id, m.price) /\ mail # <<>> /\ m.kind = "exit"
        /\ ~gone /\ gone' = gone /\ GetsExit(m.from)
    BY <1>8 DEF HandleExit, Receives
  <2>2. /\ m.from \in Brokers /\ m.id \in 1..Len(papers) /\ m.price \in Nat
    BY <2>1, HeadIsMeant
  <2> HIDE DEF m
  <2>3. /\ Len(papers') = Len(papers)
        /\ \A i \in 1..Len(papers) :
              papers'[i].state # papers[i].state => papers[i].state = "Active"
    BY <2>1, <2>2, LeaveKeeps DEF Types
  <2>4. /\ Moves(m.from) /\ bro'[m.from].receipts = bro[m.from].receipts
        /\ bro'[m.from].grace = bro[m.from].grace
        /\ bro'[m.from].violence = bro[m.from].violence
    BY <2>1, <2>2, LeavingIsTaken
  <2>5. /\ bro'[b].receipts = bro[b].receipts
        /\ bro'[b].grace = bro[b].grace /\ bro'[b].violence = bro[b].violence
    BY <1>2, <2>2, <2>4
  <2> QED
    BY <1>1, <2>1, <2>3, <2>5, ResolvingIsUnlearned
<1>9. CASE HandleStates
  <2> DEFINE m == Head(mail)
             states == [id \in m.ids |-> papers[id].state]
  <2>1. /\ GetsStates(m.from, states) /\ mail # <<>> /\ m.kind = "states"
        /\ papers' = papers /\ ~gone /\ gone' = gone
    BY <1>9 DEF HandleStates, Receives, bankVars
  <2>2. m.from \in Brokers /\ m.ids = bro[m.from].receipts
    BY <2>1, HeadIsMeant
  <2>3. DOMAIN states = m.ids /\ \A id \in m.ids : states[id] = papers[id].state
    OBVIOUS
  <2> HIDE DEF m, states
  <2>4. CASE m.from = b
    BY <1>1, <2>1, <2>2, <2>3, <2>4, StatesAreLearned
  <2>5. CASE m.from # b
    <3>1. bro'[b] = bro[b]
      BY <1>2, <2>1, <2>2, <2>5, StatesAreTaken
    <3> QED
      BY <1>1, <2>1, <3>1, BooksAsBefore
  <2> QED
    BY <2>4, <2>5
<1> QED
  BY <1>3, <1>4, <1>5, <1>6, <1>7, <1>8, <1>9, Steps

-----------------------------------------------------------------------------
(* The theorems *)

LEMMA InvInit == Init => Inv
<1> SUFFICES ASSUME Init PROVE Inv
  OBVIOUS
<1> USE DEF Init, BankInit
<1>1. BankTypes
  <2>1. papers \in Seq(Paper)
    OBVIOUS
  <2>2. [submitted |-> 0, survived |-> 0, failed |-> 0, residue |-> 0] \in Record
    BY DEF Record
  <2>3. record \in [Brokers -> Record]
    <3> HIDE DEF Record
    <3> QED
      BY <2>2
  <2> QED
    BY <2>1, <2>3 DEF BankTypes
<1>2. StreamTypes
  BY DEF StreamTypes
<1>3. BrokerTypes
  BY DEF BrokerTypes
<1>4. mail = <<>> /\ mail \in Seq(Message)
  OBVIOUS
<1>5. BrokersTrue
  BY DEF BrokersTrue
<1>6. MailTrue
  BY <1>4 DEF MailTrue, InMail
<1>7. Untaught
  BY DEF Untaught
<1>8. DeadlinesKept
  BY DEF DeadlinesKept
<1> QED
  BY <1>1, <1>2, <1>3, <1>4, <1>5, <1>6, <1>7, <1>8 DEF Inv, Types

LEMMA InvStep == Inv /\ [Next]_vars => Inv'
BY TypesStep, BrokersStep, MailStep, UntaughtStep, DeadlinesStep DEF Inv

\* The inductive invariant: records and receipts are well formed, brokers hold
\* papers of their own, requests are what their senders wait for.
THEOREM InvariantHolds == Spec => []Inv
<1>1. Init => Inv
  BY InvInit
<1>2. Inv /\ [Next]_vars => Inv'
  BY InvStep
<1> QED
  BY <1>1, <1>2, PTL DEF Spec

\* No paper outlives its deadline by the bank's clock (check_deadlines on every
\* tick, before anything else), whatever deadlines volatility has scaled.
THEOREM DeadlinesAreKept == Spec => []DeadlinesKept
<1>1. Inv => DeadlinesKept
  BY DEF Inv
<1> QED
  BY <1>1, InvariantHolds, PTL

\* Grace comes only to a proposer one of whose papers has run out: the exit
\* reckoner abstains until it has been taught, and the first thing there is to
\* teach it is a failure.
THEOREM FailureTeaches == Spec => []TaughtByFailure
<1>1. Inv => TaughtByFailure
  <2> SUFFICES ASSUME Inv, NEW b \in Brokers, record[b].survived > 0
               PROVE  record[b].failed > 0
    BY DEF TaughtByFailure
  <2>1. record[b] \in Record
    BY DEF Inv, Types, BankTypes
  <2>2. record[b].failed \in Nat /\ record[b].survived \in Nat
    BY <2>1 DEF Record
  <2>3. record[b].failed # 0
    BY <2>2 DEF Inv, Untaught
  <2> QED
    BY <2>2, <2>3
<1> QED
  BY <1>1, InvariantHolds, PTL

\* A paper leaves with a profit only while its owner waits for the answer, by
\* the price of the owner's candle, and not overdue.
THEOREM GraceIsAlwaysEarned == Spec => GraceIsEarned
<1> DEFINE GraceEarned ==
      \A i \in DOMAIN papers :
          papers[i].state # "Grace" /\ papers'[i].state = "Grace" =>
              /\ bro[papers[i].owner].at = "exit"
              /\ clock < papers[i].deadline \/ clock = papers[i].entry
              /\ papers'[i].residue = Residue(papers[i].price,
                                              Close(papers[i].owner))
              /\ papers'[i].residue > 0
<1>1. Inv /\ [Next]_vars => [GraceEarned]_vars
  <2> SUFFICES ASSUME Inv, [Next]_vars, NEW i \in DOMAIN papers,
                      papers[i].state # "Grace", papers'[i].state = "Grace"
               PROVE  /\ bro[papers[i].owner].at = "exit"
                      /\ clock < papers[i].deadline \/ clock = papers[i].entry
                      /\ papers'[i].residue = Residue(papers[i].price,
                                                      Close(papers[i].owner))
                      /\ papers'[i].residue > 0
    OBVIOUS
  <2>1. /\ Types /\ BrokersTrue /\ MailTrue /\ DeadlinesKept
        /\ i \in 1..Len(papers) /\ BankTypes
    BY Issued DEF Inv, Types
  <2>2. CASE UNCHANGED bankVars
    BY <2>2 DEF bankVars
  <2>3. CASE HandleNextTick
    <3> DEFINE m == Head(mail)
    <3>1. HandleTick(m.candle, stream[m.candle].atr) /\ mail # <<>>
          /\ m.kind = "tick"
      BY <2>3 DEF HandleNextTick, Receives
    <3>2. m.candle \in Nat /\ stream[m.candle].atr \in Nat
      BY <2>1, <3>1, HeadIsMeant DEF Types, StreamTypes
    <3> HIDE DEF m
    <3>3. papers'[i].state = papers[i].state \/ papers'[i].state = "Violence"
      BY <2>1, <3>1, <3>2, TickKeeps
    <3> QED
      BY <3>3
  <2>4. CASE HandlePaper
    <3> DEFINE m == Head(mail)
    <3>1. IssuePaper(m.from, m.price) /\ mail # <<>> /\ m.kind = "paper"
      BY <2>4 DEF HandlePaper, Receives
    <3>2. m.from \in Brokers /\ m.price \in Nat \ {0}
      BY <2>1, <3>1, HeadIsMeant
    <3> HIDE DEF m
    <3>3. papers'[i] = papers[i]
      BY <2>1, <3>1, <3>2, IssueKeeps
    <3> QED
      BY <3>3
  <2>5. CASE HandleExit
    <3> DEFINE m == Head(mail)
    <3>1. ResolveGrace(m.id, m.price) /\ mail # <<>> /\ m.kind = "exit"
      BY <2>5 DEF HandleExit, Receives
    <3>2. /\ m.from \in Brokers /\ bro[m.from].at = "exit"
          /\ m.id \in 1..Len(papers) /\ m.price \in Nat
          /\ papers[m.id].owner = m.from /\ m.price = Close(m.from)
      BY <2>1, <3>1, HeadIsMeant
    <3> HIDE DEF m
    <3>3. papers'[i] # papers[i]
      OBVIOUS
    <3>4. /\ i = m.id /\ papers[i].state = "Active"
          /\ papers'[i].residue = Residue(papers[i].price, m.price)
          /\ papers'[i].residue > 0
      BY <2>1, <3>1, <3>2, <3>3, LeaveKeeps
    <3>5. clock < papers[i].deadline \/ clock = papers[i].entry
      BY <3>4 DEF Inv, DeadlinesKept
    <3> QED
      BY <3>2, <3>4, <3>5
  <2> QED
    BY <2>2, <2>3, <2>4, <2>5, BooksChange
<1>2. Spec => [][GraceEarned]_vars
  BY <1>1, InvariantHolds, PTL DEF Spec
<1> QED
  BY <1>2 DEF GraceIsEarned

\* Every outcome of its papers teaches a broker once: what it has counted as
\* Grace or Violence are the papers so resolved that it no longer holds, as
\* long as the treasury lives, and never more than that afterwards.
THEOREM OutcomesAreLearned == Spec => []OutcomesLearned
<1>1. Init => OutcomesLearned
  <2> SUFFICES ASSUME Init, NEW b \in Brokers PROVE LearnedBroker(b)
    BY DEF OutcomesLearned, LearnedBroker
  <2>1. Mine(b, "Grace") = {} /\ Mine(b, "Violence") = {} /\ Mine(b, "Active") = {}
    BY DEF Init, BankInit, Mine
  <2>2. /\ Resolved(b, "Grace") = {} /\ Resolved(b, "Violence") = {}
    BY <2>1 DEF Resolved
  <2>3. bro[b].grace = 0 /\ bro[b].violence = 0
    BY DEF Init
  <2>4. Cardinality({}) = 0
    BY FS_EmptySet
  <2> QED
    BY <2>1, <2>2, <2>3, <2>4 DEF LearnedBroker
<1>2. Inv /\ OutcomesLearned /\ [Next]_vars => OutcomesLearned'
  BY LearnedStep DEF Inv
<1> QED
  BY <1>1, <1>2, InvariantHolds, PTL DEF Spec

-----------------------------------------------------------------------------
(* The books are true *)

\* The books of one proposer.
BookTrue(b) ==
    /\ record[b].survived = Cardinality(Mine(b, "Grace"))
    /\ record[b].failed = Cardinality(Mine(b, "Violence"))
    /\ record[b].submitted =
          record[b].survived + record[b].failed + Cardinality(Mine(b, "Active"))
    /\ record[b].residue = Earned(b)

LEMMA BooksByBroker == BooksTrue <=> \A b \in Brokers : BookTrue(b)
BY DEF BooksTrue, BookTrue

LEMMA MineAreFew ==
    ASSUME BankTypes, NEW b, NEW state
    PROVE  /\ Mine(b, state) \subseteq 1..Len(papers)
           /\ IsFiniteSet(Mine(b, state))
           /\ Cardinality(Mine(b, state)) \in Nat
<1>1. Mine(b, state) \subseteq 1..Len(papers)
  BY Issued DEF Mine
<1> QED
  BY <1>1, FewPapers

\* Papers that stay what they were leave what their owner earned alone.
LEMMA EarnedSame ==
    ASSUME BankTypes, NEW b, Mine(b, "Grace")' = Mine(b, "Grace"),
           \A i \in Mine(b, "Grace") : i \in DOMAIN papers' /\ papers'[i].residue = papers[i].residue
    PROVE  Earned(b)' = Earned(b)
<1> DEFINE S == Mine(b, "Grace")
           f == [i \in DOMAIN papers |-> papers[i].residue]
           g == [i \in DOMAIN papers' |-> papers'[i].residue]
<1>1. IsFiniteSet(S) /\ S \subseteq DOMAIN papers
  BY MineAreFew, Issued
<1>2. \A i \in DOMAIN papers : f[i] \in Int
  BY Issued DEF Paper
<1>3. \A i \in S : g[i] = f[i]
  BY <1>1
<1>4. Earned(b) = SumFunctionOnSet(f, S) /\ Earned(b)' = SumFunctionOnSet(g, S)
  BY DEF Earned
<1> HIDE DEF S, f, g
<1> QED
  BY <1>1, <1>2, <1>3, <1>4, SumSame

\* A new paper is open, and counted once.
LEMMA IssueBooks ==
    ASSUME BankTypes, BooksTrue, NEW b \in Brokers, NEW price \in Nat \ {0},
           IssuePaper(b, price)
    PROVE  BooksTrue'
<1> DEFINE n == Len(papers) + 1
<1>1. /\ BankTypes' /\ Len(papers') = n /\ Len(papers) \in Nat
      /\ \A i \in 1..Len(papers) : papers'[i] = papers[i]
      /\ papers'[n].owner = b /\ papers'[n].state = "Active"
  BY IssueKeeps, Issued DEF Keeps
<1>2. DOMAIN papers' = 1..n /\ DOMAIN papers = 1..Len(papers)
  BY <1>1, Issued DEF BankTypes
<1>3. 1..n = 1..Len(papers) \cup {n} /\ n \notin 1..Len(papers)
  BY <1>1
<1> HIDE DEF n
<1>4. \A x, s : Mine(x, s)' = IF x = b /\ s = "Active" THEN Mine(x, s) \cup {n}
                                                      ELSE Mine(x, s)
  BY <1>1, <1>2, <1>3 DEF Mine
<1>5. \A x : Earned(x)' = Earned(x)
  <2>1. \A x : \A i \in Mine(x, "Grace") : i \in DOMAIN papers'
                                           /\ papers'[i].residue = papers[i].residue
    BY <1>1, <1>2, <1>3 DEF Mine
  <2> QED
    BY <1>4, <2>1, EarnedSame
<1>6. Cardinality(Mine(b, "Active") \cup {n}) = Cardinality(Mine(b, "Active")) + 1
  <2>1. IsFiniteSet(Mine(b, "Active")) /\ n \notin Mine(b, "Active")
    BY <1>3, MineAreFew
  <2> QED
    BY <2>1, FS_AddElement
<1>7. \A x \in Brokers :
         /\ record'[x].survived = record[x].survived
         /\ record'[x].failed = record[x].failed
         /\ record'[x].residue = record[x].residue
         /\ record'[x].submitted = record[x].submitted + IF x = b THEN 1 ELSE 0
         /\ record[x].submitted \in Nat /\ record[x].survived \in Nat
         /\ record[x].failed \in Nat
  BY DEF IssuePaper, BankTypes, Record
<1> SUFFICES ASSUME NEW x \in Brokers PROVE BookTrue(x)'
  BY BooksByBroker DEF BooksTrue, BookTrue
<1>8. BookTrue(x)
  BY BooksByBroker
<1>9. Cardinality(Mine(x, "Active")) \in Nat
  BY MineAreFew
<1>10. CASE x = b
  <2>1. /\ Mine(b, "Grace")' = Mine(b, "Grace")
        /\ Mine(b, "Violence")' = Mine(b, "Violence")
        /\ Cardinality(Mine(b, "Active")') = Cardinality(Mine(b, "Active")) + 1
    BY <1>4, <1>6
  <2>2. /\ record'[b].survived = record[b].survived
        /\ record'[b].failed = record[b].failed
        /\ record'[b].residue = record[b].residue
        /\ record'[b].submitted = record[b].submitted + 1
        /\ record[b].submitted \in Nat /\ record[b].survived \in Nat
        /\ record[b].failed \in Nat
    BY <1>7
  <2>3. /\ record[b].survived = Cardinality(Mine(b, "Grace"))
        /\ record[b].failed = Cardinality(Mine(b, "Violence"))
        /\ record[b].submitted = record[b].survived + record[b].failed
                                   + Cardinality(Mine(b, "Active"))
        /\ record[b].residue = Earned(b)
    BY <1>8, <1>10 DEF BookTrue
  <2>4. record'[b].submitted = record'[b].survived + record'[b].failed
                                 + Cardinality(Mine(b, "Active")')
    BY <1>9, <1>10, <2>1, <2>2, <2>3
  <2>5. Earned(b)' = Earned(b)
    BY <1>5
  <2> QED
    BY <1>10, <2>1, <2>2, <2>3, <2>4, <2>5 DEF BookTrue
<1>11. CASE x # b
  BY <1>4, <1>5, <1>7, <1>8, <1>9, <1>11 DEF BookTrue
<1> QED
  BY <1>10, <1>11

\* A paper that leaves moves from the open ones to those that earned.
LEMMA LeaveBooks ==
    ASSUME BankTypes, BooksTrue, NEW id \in 1..Len(papers), NEW price \in Nat,
           ResolveGrace(id, price)
    PROVE  BooksTrue'
<1>1. PICK o, residue : o = papers[id].owner /\ residue = Residue(papers[id].price, price)
  OBVIOUS
<1>2. /\ papers[id] \in Paper /\ o \in Brokers /\ residue \in Int
      /\ DOMAIN papers = 1..Len(papers)
      /\ \A i \in DOMAIN papers : papers[i] \in Paper
  BY <1>1, Issued, ResidueIsInteger DEF Paper
<1>3. CASE ~ExitGranted(id, price)
  <2>1. UNCHANGED <<papers, record>>
    BY <1>3 DEF ResolveGrace
  <2> QED
    BY <2>1 DEF BooksTrue, Mine, Earned
<1>4. CASE ExitGranted(id, price)
  <2> DEFINE S == Mine(o, "Grace")
             A == Mine(o, "Active")
             f == [i \in DOMAIN papers |-> papers[i].residue]
             g == [i \in DOMAIN papers' |-> papers'[i].residue]
  <2>1. /\ papers[id].state = "Active"
        /\ papers' = [papers EXCEPT ![id].state = "Grace", ![id].residue = residue]
        /\ record' = [record EXCEPT ![o].survived = @ + 1, ![o].residue = @ + residue]
    BY <1>1, <1>4 DEF ResolveGrace, ExitGranted
  <2>2. DOMAIN papers' = DOMAIN papers
    BY <2>1
  <2>3. /\ \A i \in DOMAIN papers : i # id => papers'[i] = papers[i]
        /\ papers'[id].owner = o /\ papers'[id].state = "Grace"
        /\ papers'[id].residue = residue
    BY <1>1, <1>2, <2>1 DEF Paper
  <2>4. \A x, s : Mine(x, s)' =
                    IF x # o THEN Mine(x, s)
                    ELSE IF s = "Grace" THEN Mine(x, s) \cup {id}
                    ELSE Mine(x, s) \ {id}
    BY <1>1, <1>2, <2>1, <2>2, <2>3 DEF Mine
  <2>5. /\ IsFiniteSet(S) /\ id \notin S /\ S \subseteq DOMAIN papers
        /\ IsFiniteSet(A) /\ id \in A
        /\ Cardinality(A) \in Nat /\ Cardinality(S) \in Nat
    <3>1. /\ IsFiniteSet(S) /\ S \subseteq DOMAIN papers /\ IsFiniteSet(A)
          /\ Cardinality(A) \in Nat /\ Cardinality(S) \in Nat
      BY <1>2, MineAreFew
    <3>2. id \notin S /\ id \in A
      BY <1>1, <1>2, <2>1 DEF Mine
    <3> QED
      BY <3>1, <3>2
  <2>6. id \notin Mine(o, "Violence")
    BY <2>1 DEF Mine
  <2>7. /\ \A i \in S : f[i] \in Int /\ g[i] = f[i]
        /\ g[id] = residue /\ g[id] \in Int
    <3>1. \A i \in DOMAIN papers : papers[i].residue \in Int
      BY <1>2 DEF Paper
    <3> QED
      BY <1>2, <2>2, <2>3, <2>5, <3>1
  <2>8. Earned(o) = SumFunctionOnSet(f, S)
    BY DEF Earned
  <2>9. Earned(o)' = SumFunctionOnSet(g, S \cup {id})
    BY <2>4 DEF Earned
  <2>10. \A x : x # o => Earned(x)' = Earned(x)
    <3>1. \A x : x # o => \A i \in Mine(x, "Grace") : i \in DOMAIN papers' /\ papers'[i].residue = papers[i].residue
      BY <1>1, <2>2, <2>3 DEF Mine
    <3> QED
      BY <2>4, <3>1, EarnedSame
  <2> HIDE DEF f, g, S, A
  <2>11. Earned(o)' = Earned(o) + residue
    <3>1. SumFunctionOnSet(g, S \cup {id}) = SumFunctionOnSet(f, S) + g[id]
      BY <2>5, <2>7, SumGains
    <3> QED
      BY <2>7, <2>8, <2>9, <3>1
  <2>12. /\ Cardinality(S \cup {id}) = Cardinality(S) + 1
         /\ Cardinality(A \ {id}) = Cardinality(A) - 1
    BY <2>5, FS_AddElement, FS_RemoveElement
  <2>13. \A x \in Brokers :
           /\ record'[x].survived = record[x].survived + IF x = o THEN 1 ELSE 0
           /\ record'[x].failed = record[x].failed
           /\ record'[x].residue = record[x].residue + IF x = o THEN residue ELSE 0
           /\ record'[x].submitted = record[x].submitted
           /\ record[x].submitted \in Nat /\ record[x].survived \in Nat
           /\ record[x].failed \in Nat /\ record[x].residue \in Int
    <3>1. \A x \in Brokers : record[x] \in Record
      BY DEF BankTypes
    <3>2. \A x \in Brokers : x # o => record'[x] = record[x]
      BY <1>2, <2>1 DEF BankTypes
    <3>3. record'[o] = [record[o] EXCEPT !.survived = @ + 1, !.residue = @ + residue]
      BY <1>2, <2>1 DEF BankTypes
    <3>4. /\ record'[o].survived = record[o].survived + 1
          /\ record'[o].residue = record[o].residue + residue
          /\ record'[o].failed = record[o].failed
          /\ record'[o].submitted = record[o].submitted
      BY <1>2, <3>1, <3>3 DEF Record
    <3> QED
      BY <3>1, <3>2, <3>4 DEF Record
  <2> SUFFICES ASSUME NEW x \in Brokers PROVE BookTrue(x)'
    BY BooksByBroker DEF BooksTrue, BookTrue
  <2>14. BookTrue(x)
    BY BooksByBroker
  <2>15. CASE x = o
    <3>1. /\ Mine(o, "Grace")' = S \cup {id}
          /\ Mine(o, "Active")' = A \ {id}
          /\ Mine(o, "Violence")' = Mine(o, "Violence")
      BY <2>4, <2>6 DEF S, A
    <3>2. /\ record[o].survived = Cardinality(S)
          /\ record[o].failed = Cardinality(Mine(o, "Violence"))
          /\ record[o].submitted = record[o].survived + record[o].failed + Cardinality(A)
          /\ record[o].residue = Earned(o)
      BY <2>14, <2>15 DEF BookTrue, S, A
    <3>3. /\ record'[o].survived = Cardinality(Mine(o, "Grace")')
          /\ record'[o].failed = Cardinality(Mine(o, "Violence")')
          /\ record'[o].residue = Earned(o)'
      BY <1>2, <2>11, <2>12, <2>13, <3>1, <3>2
    <3>4. record'[o].submitted = record'[o].survived + record'[o].failed
                                   + Cardinality(Mine(o, "Active")')
      <4>1. /\ record'[o].submitted = record[o].submitted
            /\ record'[o].survived = record[o].survived + 1
            /\ record'[o].failed = record[o].failed
            /\ record[o].survived \in Nat /\ record[o].failed \in Nat
        BY <1>2, <2>13
      <4>2. Cardinality(Mine(o, "Active")') = Cardinality(A) - 1
            /\ Cardinality(A) \in Nat
        BY <2>5, <2>12, <3>1
      <4> QED
        BY <3>2, <4>1, <4>2
    <3> QED
      BY <2>15, <3>3, <3>4 DEF BookTrue
  <2>16. CASE x # o
    <3>1. Mine(x, "Grace")' = Mine(x, "Grace") /\ Mine(x, "Active")' = Mine(x, "Active")
          /\ Mine(x, "Violence")' = Mine(x, "Violence")
      BY <2>4, <2>16
    <3> QED
      BY <2>10, <2>13, <2>14, <2>16, <3>1 DEF BookTrue
  <2> QED
    BY <2>15, <2>16
<1> QED
  BY <1>3, <1>4

\* A tick moves what is due from the open papers to the failed ones.
LEMMA TickBooks ==
    ASSUME BankTypes, BooksTrue, NEW candle \in Nat, NEW reading \in Nat,
           HandleTick(candle, reading)
    PROVE  BooksTrue'
<1> DEFINE due == Expired(candle)
           Due(b) == {i \in due : papers[i].owner = b}
<1>1. DOMAIN papers = 1..Len(papers) /\ \A i \in DOMAIN papers : papers[i] \in Paper
  BY Issued
<1>2. due \subseteq DOMAIN papers /\ \A i \in due : papers[i].state = "Active"
  BY DEF Expired
<1>3. papers' = [i \in DOMAIN papers |->
                   IF i \in due THEN [papers[i] EXCEPT !.state = "Violence"]
                   ELSE papers[i]]
  BY DEF HandleTick, CheckDeadlines
<1>4. record' = [b \in Brokers |->
                   [record[b] EXCEPT !.failed = @ + Cardinality(Due(b))]]
  BY DEF HandleTick, CheckDeadlines
<1> HIDE DEF due
<1>5. DOMAIN papers' = DOMAIN papers
      /\ \A i \in DOMAIN papers :
            /\ papers'[i].owner = papers[i].owner
            /\ papers'[i].residue = papers[i].residue
            /\ papers'[i].state = IF i \in due THEN "Violence" ELSE papers[i].state
  BY <1>1, <1>3 DEF Paper
<1> SUFFICES ASSUME NEW b \in Brokers PROVE BookTrue(b)'
  BY BooksByBroker DEF BooksTrue, BookTrue
<1>6. Mine(b, "Grace")' = Mine(b, "Grace")
  BY <1>2, <1>5 DEF Mine
<1>7. Mine(b, "Active")' = Mine(b, "Active") \ Due(b)
  BY <1>2, <1>5 DEF Mine
<1>8. Mine(b, "Violence")' = Mine(b, "Violence") \cup Due(b)
  BY <1>2, <1>5 DEF Mine
<1>9. Due(b) \subseteq Mine(b, "Active") /\ Mine(b, "Violence") \cap Due(b) = {}
  BY <1>2 DEF Mine
<1>10. Earned(b)' = Earned(b)
  <2>1. \A i \in Mine(b, "Grace") : i \in DOMAIN papers' /\ papers'[i].residue = papers[i].residue
    BY <1>5 DEF Mine
  <2> QED
    BY <1>6, <2>1, EarnedSame
<1> DEFINE D == Due(b)
           A == Mine(b, "Active")
           V == Mine(b, "Violence")
<1>11. record'[b] = [record[b] EXCEPT !.failed = @ + Cardinality(D)]
       /\ record[b] \in Record
  BY <1>4 DEF BankTypes
<1>12. BookTrue(b)
  BY BooksByBroker
<1>13. IsFiniteSet(A) /\ IsFiniteSet(V) /\ Cardinality(A) \in Nat /\ Cardinality(V) \in Nat
  BY MineAreFew
<1> HIDE DEF A, V, D
<1>14. IsFiniteSet(D) /\ Cardinality(D) \in Nat
  BY <1>9, <1>13, FS_Subset, FS_CardinalityType DEF A, D
<1>15. Cardinality(A \ D) = Cardinality(A) - Cardinality(D)
  <2>1. A \cap D = D
    BY <1>9 DEF A, D
  <2> QED
    BY <1>13, <2>1, FS_Difference
<1>16. Cardinality(V \cup D) = Cardinality(V) + Cardinality(D)
  <2>1. V \cap D = {}
    BY <1>9 DEF V, D
  <2>2. Cardinality(V \cup D) = Cardinality(V) + Cardinality(D) - Cardinality(V \cap D)
    BY <1>13, <1>14, FS_Union
  <2>3. Cardinality(V \cap D) = 0
    BY <2>1, FS_EmptySet
  <2> QED
    BY <1>13, <1>14, <2>2, <2>3
<1>17. /\ record'[b].failed = record[b].failed + Cardinality(D)
       /\ record'[b].survived = record[b].survived
       /\ record'[b].submitted = record[b].submitted
       /\ record'[b].residue = record[b].residue
       /\ record[b].failed \in Nat /\ record[b].survived \in Nat
       /\ record[b].submitted \in Nat
  BY <1>11 DEF Record
<1>18. /\ record[b].failed = Cardinality(V)
       /\ record[b].submitted = record[b].survived + record[b].failed + Cardinality(A)
       /\ record[b].survived = Cardinality(Mine(b, "Grace"))
       /\ record[b].residue = Earned(b)
  BY <1>12 DEF BookTrue, A, V
<1>19. record'[b].failed = Cardinality(Mine(b, "Violence")')
  BY <1>8, <1>16, <1>17, <1>18 DEF V, D
<1>20. record'[b].submitted = record'[b].survived + record'[b].failed
                                + Cardinality(Mine(b, "Active")')
  <2>1. Mine(b, "Active")' = A \ D
    BY <1>7 DEF A, D
  <2> QED
    <3>1. Cardinality(Mine(b, "Active")') = Cardinality(A) - Cardinality(D)
      BY <1>15, <2>1
    <3> QED
      BY <1>13, <1>14, <1>17, <1>18, <3>1
<1> QED
  BY <1>6, <1>10, <1>17, <1>18, <1>19, <1>20 DEF BookTrue

LEMMA BooksStep ==
    ASSUME Inv, BooksTrue, [Next]_vars
    PROVE  BooksTrue'
<1> USE DEF Inv
<1>1. CASE UNCHANGED bankVars
  BY <1>1 DEF bankVars, BooksTrue, Mine, Earned
<1>2. CASE HandleNextTick
  <2>1. /\ HandleTick(Head(mail).candle, stream[Head(mail).candle].atr)
        /\ Head(mail).candle \in Nat /\ stream[Head(mail).candle].atr \in Nat
    BY <1>2, HeadIsMeant DEF HandleNextTick, Receives, Types, StreamTypes
  <2> QED
    BY <2>1, TickBooks DEF Types
<1>3. CASE HandlePaper
  <2>1. /\ IssuePaper(Head(mail).from, Head(mail).price)
        /\ Head(mail).from \in Brokers /\ Head(mail).price \in Nat \ {0}
    BY <1>3, HeadIsMeant DEF HandlePaper, Receives
  <2> QED
    BY <2>1, IssueBooks DEF Types
<1>4. CASE HandleExit
  <2>1. /\ ResolveGrace(Head(mail).id, Head(mail).price)
        /\ Head(mail).id \in 1..Len(papers) /\ Head(mail).price \in Nat
    BY <1>4, HeadIsMeant DEF HandleExit, Receives
  <2> QED
    BY <2>1, LeaveBooks DEF Types
<1> QED
  BY <1>1, <1>2, <1>3, <1>4, BooksChange

\* Whatever order papers, leaves and ticks reach the bank in, each record
\* tells the outcomes of its proposer's papers and the sum they earned
\* (ProposerRecord in domain/treasury.rs).
THEOREM BooksAreTrue == Spec => []BooksTrue
<1>1. Init => BooksTrue
  <2> SUFFICES ASSUME Init, NEW b \in Brokers PROVE BookTrue(b)
    BY BooksByBroker
  <2>1. \A s : Mine(b, s) = {}
    BY DEF Init, BankInit, Mine
  <2>2. Earned(b) = 0
    BY <2>1, SumEmpty DEF Earned
  <2>3. Cardinality({}) = 0
    BY FS_EmptySet
  <2>4. record[b] = [submitted |-> 0, survived |-> 0, failed |-> 0, residue |-> 0]
    BY DEF Init, BankInit
  <2> QED
    BY <2>1, <2>2, <2>3, <2>4 DEF BookTrue
<1>2. Inv /\ BooksTrue /\ [Next]_vars => BooksTrue'
  BY BooksStep
<1> QED
  BY <1>1, <1>2, InvariantHolds, PTL DEF Spec

=============================================================================
