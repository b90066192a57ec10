----------------------------- MODULE VmConsole ------------------------------
(***************************************************************************)
(* programs/stdlib/console.rs over services/mailbox.rs of the reference     *)
(* machine.  Every producer has two bounded(1) queues, one for stdout and   *)
(* one for stderr; a fan-in thread selects over those that are still alive  *)
(* and passes one message at a time on to a bounded queue, which the driver *)
(* prints from until it is disconnected.                                    *)
(*                                                                         *)
(* A message is the number of its line among its producer's lines.          *)
(***************************************************************************)
EXTENDS Naturals, Sequences, Functions

CONSTANTS
    Producers,     \* number of handles
    MailboxRoom    \* capacity of the mailbox's own queue, 64 in the code

ASSUME ConsoleAssumption ==
    Producers \in Nat \ {0} /\ MailboxRoom \in Nat \ {0}

Wire == (1..Producers) \X {"out", "err"}

VARIABLES
    held,       \* producers that still hold their handle
    said,       \* lines each producer has sent
    wire,       \* the producers' queues
    mailbox,    \* lines the fan-in thread has taken and nobody printed
    printed,    \* what came out, per producer and stream
    conAt       \* "running" or "exit"

consoleVars == <<held, said, wire, mailbox, printed, conAt>>

ConsoleInit ==
    /\ held = 1..Producers
    /\ said = [p \in 1..Producers |-> 0]
    /\ wire = [w \in Wire |-> <<>>]
    /\ mailbox = <<>>
    /\ printed = [w \in Wire |-> <<>>]
    /\ conAt = "running"

\* out and err: fire and forget, but the queue holds one line, so a second
\* one waits until the fan-in thread has taken the first.
Say(p, stream) ==
    /\ p \in held
    /\ wire[<<p, stream>>] = <<>>
    /\ said' = [said EXCEPT ![p] = @ + 1]
    /\ wire' = [wire EXCEPT ![<<p, stream>>] = <<said[p] + 1>>]
    /\ UNCHANGED <<held, mailbox, printed, conAt>>

ConsoleDrop(p) ==
    /\ p \in held
    /\ held' = held \ {p}
    /\ UNCHANGED <<said, wire, mailbox, printed, conAt>>

\* select picks any queue with a line; the thread then holds that line until
\* the mailbox's queue has room, so one line more than the room is on its way.
ConsoleFanIn ==
    /\ Len(mailbox) <= MailboxRoom
    /\ \E w \in Wire :
        /\ wire[w] # <<>>
        /\ mailbox' = Append(mailbox, [wire |-> w, line |-> Head(wire[w])])
        /\ wire' = [wire EXCEPT ![w] = Tail(@)]
    /\ UNCHANGED <<held, said, printed, conAt>>

PrintLine ==
    /\ mailbox # <<>>
    /\ printed' = [printed EXCEPT ![Head(mailbox).wire]
                                     = Append(@, Head(mailbox).line)]
    /\ mailbox' = Tail(mailbox)
    /\ UNCHANGED <<held, said, wire, conAt>>

\* Variant: the driver leaves with lines still in the mailbox.
ConsoleExitEarly ==
    /\ conAt = "running"
    /\ held = {} /\ \A w \in Wire : wire[w] = <<>>
    /\ conAt' = "exit"
    /\ UNCHANGED <<held, said, wire, mailbox, printed>>

\* A queue that is disconnected and empty is forgotten; when none is left the
\* fan-in thread drops its sender, and the driver meets the disconnection.
ConsoleExit ==
    /\ conAt = "running"
    /\ held = {} /\ \A w \in Wire : wire[w] = <<>>
    /\ mailbox = <<>>
    /\ conAt' = "exit"
    /\ UNCHANGED <<held, said, wire, mailbox, printed>>

ConsoleDriver == PrintLine \/ ConsoleExit

ConsoleNext ==
    \/ \E p \in 1..Producers :
           ConsoleDrop(p) \/ \E stream \in {"out", "err"} : Say(p, stream)
    \/ ConsoleFanIn \/ ConsoleDriver

\* The console beside clients that may say anything.
ConsoleSpec == ConsoleInit /\ [][ConsoleNext]_consoleVars

-----------------------------------------------------------------------------
(* What the console promises *)

\* Each stream of a producer comes out in the order it was said, no line
\* twice; the two streams of one producer may overtake each other.  When the
\* driver has gone every line that was said has come out.
ConsoleFaithful ==
    /\ \A w \in Wire : \A i, j \in DOMAIN printed[w] :
           i < j => printed[w][i] < printed[w][j]
    /\ conAt = "exit" =>
           \A p \in 1..Producers :
               Range(printed[<<p, "out">>]) \cup Range(printed[<<p, "err">>])
                   = 1..said[p]

=============================================================================
