------------------------------- MODULE MCPrograms -------------------------------
(***************************************************************************)
(* Small instances of what the programs around the server do by themselves:*)
(* the processes of qtservice on UNIX and on Windows; the player, with a   *)
(* grid of three windows and answers that fail, that are short and that are*)
(* long; the genes of the engine, texts of three numbers with two digits   *)
(* each.  `program` says which of them runs.                               *)
(***************************************************************************)
EXTENDS Service, WinService, Gene, Player

VARIABLE program

AllVars == <<program, serviceVars, winVars, geneVars, playerVars>>

(* A player whose process is gone, and one gene.                           *)
NoPlayer ==
    /\ crashed = TRUE /\ built = FALSE
    /\ waiting = FALSE /\ requests = 0
    /\ genes = <<>>
    /\ shows = [s \in Son |-> Nothing] /\ finished = [s \in Son |-> FALSE]

OneGene == gene = [s \in Slots |-> chrome_to_gene([i \in Position |-> Zero])]

Init ==
    /\ ServiceInit /\ WinInit
    /\ \/ program \in {"unix", "win"} /\ GeneInit /\ OneGene /\ NoPlayer
       \/ program = "engine" /\ GeneInit /\ NoPlayer
       \/ program = "player" /\ GeneInit /\ OneGene /\ PlayerInit

Next ==
    \/ /\ program = "unix" /\ ServiceNext
       /\ UNCHANGED <<program, winVars, geneVars, playerVars>>
    \/ /\ program = "win" /\ WinNext
       /\ UNCHANGED <<program, serviceVars, geneVars, playerVars>>
    \/ /\ program = "engine" /\ GeneNext
       /\ UNCHANGED <<program, serviceVars, winVars, playerVars>>
    \/ /\ program = "player" /\ PlayerNext
       /\ UNCHANGED <<program, serviceVars, winVars, geneVars>>

Spec ==
    /\ Init /\ [][Next]_AllVars
    /\ ServiceFairness /\ WinFairness /\ PlayerFairness

================================================================================
