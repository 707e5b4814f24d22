------------------------------- MODULE Player -------------------------------
(***************************************************************************)
(* The player (dialog.cpp): a grid of MainWindows, each of which drives one  *)
(* car, fed with the best genes the server knows.  One thread runs           *)
(* everything from Qt's event loop, and the input dialogs of the             *)
(* constructor run that loop before the grid exists.                        *)
(*                                                                         *)
(* A gene is its rank in the answer it came with; the cars are those of Car, *)
(* of which only the end matters here.                                      *)
(***************************************************************************)
EXTENDS Integers, Sequences, FiniteSets, SequencesExt

CONSTANTS
    Rows, Columns,  \* n and m, asked from the user; 1 to 10
    Few,            \* fewer genes than this are asked for anew, 10
    Answers         \* bound: the numbers of genes an answer may bring

ASSUME PlayerAssumption ==
    /\ Rows \in Nat \ {0} /\ Columns \in Nat \ {0}
    /\ Few \in Nat
    /\ Answers \subseteq Nat

Son == 0 .. Rows * Columns - 1
Nothing == 0

VARIABLES
    built,     \* n and m are known and sons holds the windows
    waiting,
    requests,  \* the requests whose finished() is still to come
    genes,     \* the ranks of the genes left, the best first
    shows,     \* the entry of the last answer that each window was given, if any
    finished,  \* MainWindow::finished
    crashed

playerVars == <<built, waiting, requests, genes, shows, finished, crashed>>

PlayerInit ==
    /\ built = FALSE
    /\ waiting = TRUE /\ requests = 1
    /\ genes = <<>>
    /\ shows = [s \in Son |-> Nothing]
    /\ finished = [s \in Son |-> FALSE]
    /\ crashed = FALSE

-----------------------------------------------------------------------------
(* rebuildLayout *)

\* faulty variant: the gene is not erased
TakenKeep(left, id) == left

\* getGene(): the windows are spread over the ranks, so that a window near
\* the front takes a better gene.
Pick(left, id) == ((Len(left) * id) \div Rows) \div Columns + 1
Taken(left, id) == RemoveAt(left, Pick(left, id))

\* One window: a finished one, or any when forced, takes a gene if one is left.
Serve(st, id, force) ==
    IF st.left # <<>> /\ (st.done[id] \/ force)
    THEN [left |-> Taken(st.left, id),
          on   |-> [st.on EXCEPT ![id] = st.left[Pick(st.left, id)]],
          done |-> [st.done EXCEPT ![id] = FALSE]]
    ELSE st

Served(left, on, done, force) ==
    LET after[k \in 0 .. Rows * Columns] ==
            IF k = 0 THEN [left |-> left, on |-> on, done |-> done]
            ELSE LET st == after[k - 1] IN Serve(st, k - 1, force)
    IN  after[Rows * Columns]

\* faulty variant: a request is sent whatever else is under way
AsksAlways(left, wait) == Len(left) < Few

Asks(left, wait) == Len(left) < Few /\ ~wait

\* The layout from the given genes, and a new request when few are left.
Rebuild(left, on, force, wait, open) ==
    \E st \in {Served(left, on, finished, force)} :
        LET ask == Asks(st.left, wait) IN
        /\ genes' = st.left /\ shows' = st.on /\ finished' = st.done
        /\ waiting' = (wait \/ ask)
        /\ requests' = open + (IF ask THEN 1 ELSE 0)

-----------------------------------------------------------------------------
(* The event loop *)

\* The dialogs are answered: the windows are made and filled.
Build ==
    /\ ~crashed /\ ~built
    /\ built' = TRUE
    /\ Rebuild(genes, shows, FALSE, waiting, requests)
    /\ UNCHANGED crashed

\* An answer names its worker and then lists genes; they are sorted.
Ranks(k) == [i \in 1 .. k |-> i]

\* faulty variant: waiting stays set
ReplyStillWaiting(k) ==
    /\ ~crashed /\ built /\ requests > 0
    /\ Rebuild(Ranks(k), [s \in Son |-> Nothing], FALSE, TRUE, requests - 1)
    /\ UNCHANGED <<built, crashed>>

\* finished() of a reply; a request that failed brings no genes.
Reply(k) ==
    /\ ~crashed /\ built /\ requests > 0
    /\ Rebuild(Ranks(k), [s \in Son |-> Nothing], FALSE, FALSE, requests - 1)
    /\ UNCHANGED <<built, crashed>>

\* The same in the loop of a dialog: n and m are whatever was in the memory.
\* With a gene at hand, numbers above 0 lead to a window that does not exist.
ReplyEarly(k) ==
    /\ ~crashed /\ ~built /\ requests > 0
    /\ genes' = Ranks(k)
    /\ crashed' \in IF k > 0 THEN BOOLEAN ELSE {FALSE}
    /\ LET ask == ~crashed' /\ Asks(genes', FALSE)
       IN  /\ waiting' = ask
           /\ requests' = requests - 1 + (IF ask THEN 1 ELSE 0)
    /\ UNCHANGED <<built, shows, finished>>

\* The timer of the dialog, 100 ms.
Timeout ==
    /\ ~crashed /\ built
    /\ Rebuild(genes, shows, FALSE, waiting, requests)
    /\ UNCHANGED <<built, crashed>>

\* The button
Reset ==
    /\ ~crashed /\ built
    /\ Rebuild(genes, shows, TRUE, waiting, requests)
    /\ UNCHANGED <<built, crashed>>

\* MainWindow::timerEvent catches the score of its car.
CarStops(s) ==
    /\ ~crashed /\ built /\ ~finished[s]
    /\ finished' = [finished EXCEPT ![s] = TRUE]
    /\ UNCHANGED <<built, waiting, requests, genes, shows, crashed>>

PlayerNext ==
    \/ Build \/ Timeout \/ Reset
    \/ \E k \in Answers : Reply(k) \/ ReplyEarly(k)
    \/ \E s \in Son : CarStops(s)

Enough == Rows * Columns

\* The user answers the dialogs; Qt runs the timer and ends every request; the
\* server does not fail for ever and has a gene for every window.
PlayerFairness ==
    /\ WF_playerVars(Build) /\ WF_playerVars(Timeout)
    /\ WF_playerVars(\E k \in Answers : Reply(k))
    /\ SF_playerVars(\E k \in Answers : k >= Enough /\ Reply(k))

PlayerSpec == PlayerInit /\ [][PlayerNext]_playerVars
PlayerFairSpec == PlayerSpec /\ PlayerFairness

-----------------------------------------------------------------------------
(* Properties *)

\* dialog.cpp:15, 30, 78-81, 97: waiting is set exactly while one request is
\* under way, in the constructor, its dialogs and ever after.
OneRequest == ~crashed => requests = (IF waiting THEN 1 ELSE 0)

\* dialog.cpp:105-111: while one answer is served out, through any number of
\* timers and resets, no entry of it is given to two windows, and none that was
\* given is still in the list.  Of genes that windows have from earlier answers,
\* or that an answer lists twice, it says nothing.
NoEntryIsGivenTwice ==
    /\ \A s, t \in Son : s # t /\ shows[s] = shows[t] => shows[s] = Nothing
    /\ \A s \in Son : \A k \in DOMAIN genes : genes[k] # shows[s]

\* dialog.cpp:56-60, 72: a window whose car has stopped gets another gene.
WindowsMoveOn ==
    \A s \in Son : finished[s] ~> (~finished[s] \/ crashed)

=============================================================================
