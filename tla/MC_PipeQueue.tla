---------------------------- MODULE MC_PipeQueue ----------------------------
(* Two pipes.  The client of pipe q keeps up to three transfers outstanding, *)
(* that of pipe c one at a time, and only the latter closes its pipe.  Only  *)
(* pipe q takes part in bandwidth reclamation.                               *)
EXTENDS PipeQueue, TLC

CONSTANTS c, q

MCPipes == {c, q}
MCClosable == {c}
MCControl == {q}
MCReclamation == {q}
MCDepth == (c :> 1) @@ (q :> 3)

(* One pipe, closed by a client that may have two transfers outstanding.    *)
OnePipe == {c}
Deep == [p \in OnePipe |-> 2]

(* Every pipe may be closed with any number of transfers outstanding.       *)
AllDeep == [p \in MCPipes |-> 3]
=============================================================================
