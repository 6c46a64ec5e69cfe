-------------------------- MODULE MCSwqosChannels --------------------------
(* Small instances of SwqosChannels. *)
EXTENDS SwqosChannels, TLC

AllClients == PostClients \cup QuicClients

\* One sender submits two transactions, the other one; through the clients whose
\* connections or keep-alive multiply the states, each submits one.
First == CHOOSE p \in Senders : TRUE
Batches == [c \in AllClients |-> [p \in Senders |->
              IF p = First \/ c \in QuicClients \cup {"BlockRazor", "BlockRazorGrpc"}
                THEN 1 ELSE 2]]
=============================================================================
