------------------------ MODULE MCTransactionAssembly -------------------------
(* Jobs that differ in every part a shared structure could mix up.            *)
EXTENDS TransactionAssembly

Swap(key, n) == [op |-> "swap", key |-> key, amount |-> n]
Job(business, ms, encoding) ==
  [business |-> business, middlewares |-> ms, price |-> 1, limit |-> 2, tip |-> 1,
   tip_account |-> "k2", simulate |-> FALSE, with_tip |-> TRUE, rpc |-> TRUE,
   default_fee |-> TRUE, nonce |-> {}, recent |-> {"h1"}, table |-> {}, encoding |-> encoding]

Durable == {[account |-> "k1", current |-> {"n1"}]}
MCJobs == {
  Job(<<Swap("k1", 1), Swap("k2", 2)>>, <<"log">>, "base64"),
  [Job(<<Swap("k2", 3)>>, <<"memo">>, "bincode") EXCEPT !.nonce = Durable, !.recent = {}],
  [Job(<<Swap("k2", 4)>>, <<>>, "base58") EXCEPT !.table = {<<"k1", "k2">>}, !.price = 0],
  [Job(<<Swap("k1", 5)>>, <<>>, "bincode") EXCEPT !.table = {<<"zero", "k1">>}, !.tip = 0],
  [Job(<<Swap("k1", 6)>>, <<"clear", "memo">>, "base64") EXCEPT !.nonce = Durable],
  [Job(<<Swap("k1", 7)>>, <<"fail">>, "base64") EXCEPT !.limit = 0],
  [Job(<<Swap("k1", 8)>>, <<>>, "base64") EXCEPT !.simulate = TRUE, !.limit = 0],
  [Job(<<Swap("k1", 8)>>, <<>>, "base64") EXCEPT !.simulate = TRUE, !.rpc = FALSE],
  [Job(<<Swap("k1", 9)>>, <<>>, "base64") EXCEPT !.recent = {}],
  [Job(<<Swap("k1", 9)>>, <<>>, "base64") EXCEPT
     !.nonce = {[account |-> "k1", current |-> {}]}],
  Job(<<>>, <<>>, "base64"),
  Job(<<Swap("k1", 1)>>, <<>>, "other")}
=============================================================================
