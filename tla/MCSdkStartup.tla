---------------------------- MODULE MCSdkStartup ----------------------------
(* A small instance of SdkStartup: every sort of channel list on machines with
   0 to 4 cores, and every state of the wallets on one of them. *)
EXTENDS SdkStartup

Setting(list, cores, end, create, money, there) ==
  [configs |-> list, num_cores |-> cores, from_end |-> end, setup |-> create,
   sol |-> money, ata |-> there]

Lists == {<<>>, <<"NextBlock">>, <<"Soyas">>, <<"Jito", "Soyas">>}
Paid == [w \in Wallets |-> "enough"]
SmallSettings ==
  {Setting(list, cores, end, FALSE, Paid, Wallets) :
     list \in Lists, cores \in 0 .. 4, end \in BOOLEAN}
  \cup {Setting(<<"Jito">>, 2, FALSE, create, [Paid EXCEPT ![Main] = money], there) :
     create \in BOOLEAN, money \in {"none", "short", "enough"}, there \in SUBSET Wallets}
=============================================================================
