----------------------------- MODULE SdkStartup -----------------------------
(***************************************************************************)
(* How the SDK comes up: TradingInfrastructure::new (rents, submission     *)
(* channels, how many senders and on which cores), TradingClient::new for  *)
(* the main wallet, with the creation of its WSOL account, and the clients *)
(* other wallets get from the same infrastructure, whose accounts are      *)
(* created in the background.  Every wait ends, if only by its timeout; a  *)
(* transaction nobody waits for any more may still land.                   *)
(***************************************************************************)
EXTENDS Integers, Sequences, FiniteSets

CONSTANTS
  Wallets, Main,   \* the wallets, and the one TradingClient::new is called for
  Settings         \* configurations, machines and chain states to start in

SWQOS_BLACKLIST == {"NextBlock"}     \* channels that are never used
\* The channels whose construction waits for a connection, which may fail or
\* take too long; the construction of the others does neither.
Fallible == {"Node1Quic", "BlockRazorGrpc", "AstralaneQuic", "Soyas", "Speedlanding"}

MAX_RETRIES == 3

ASSUME SdkStartupAssumption ==
  /\ Main \in Wallets
  /\ \A s \in Settings :
       /\ s.configs \in Seq(STRING) /\ s.num_cores \in Nat
       /\ s.setup \in BOOLEAN /\ s.from_end \in BOOLEAN
       /\ s.ata \subseteq Wallets /\ s.sol \in [Wallets -> {"none", "short", "enough"}]

VARIABLES
  at,          \* where TradingClient::new is
  configs, from_end,    \* the configuration: channels, swqos_cores_from_end
  setup,       \* create_wsol_ata_on_startup
  num_cores,   \* cores of the machine, 0 when they are not known
  rents,       \* SPL_TOKEN_RENT and SPL_TOKEN_2022_RENT: unset, or a value
  updater,     \* whether the task that refreshes them runs
  next,        \* the next configured channel
  swqos_clients,        \* channels so far
  max_sender_concurrency, effective_core_ids,
  clients,     \* wallets that have a client
  sender_thread_cores,  \* per wallet: the cores of its dedicated threads
  sol,         \* per wallet: "none", less than the account costs, or "enough"
  ata,         \* wallets whose WSOL account exists
  ensure,      \* per wallet: where ensure_wsol_ata is, in which attempt
  inflight,    \* creations that may still land, as <<wallet, attempt>>
  unseen,      \* history: wallets whose account was there, or could still come, unseen
  aborted      \* wallets for which the process was aborted

infra == <<num_cores, configs, from_end, next, swqos_clients, max_sender_concurrency,
           effective_core_ids>>
accounts == <<sol, ata, ensure, inflight, unseen, aborted>>
vars == <<at, setup, rents, updater, infra, clients, sender_thread_cores, accounts>>

Least(a, b) == IF a < b THEN a ELSE b
Most(a, b) == IF a < b THEN b ELSE a

Init ==
  /\ at = "rent"
  /\ \E s \in Settings :
       /\ configs = s.configs /\ setup = s.setup /\ from_end = s.from_end
       /\ num_cores = s.num_cores /\ sol = s.sol /\ ata = s.ata
  /\ rents = [spl |-> "unset", t22 |-> "unset"] /\ updater = FALSE
  /\ next = 1 /\ swqos_clients = <<>>
  /\ max_sender_concurrency = 0 /\ effective_core_ids = {}
  /\ clients = {} /\ sender_thread_cores = [w \in Wallets |-> 0]
  /\ ensure = [w \in Wallets |-> [at |-> "off", attempt |-> 0]]
  /\ inflight = {} /\ unseen = {} /\ aborted = {}

-----------------------------------------------------------------------------
(* The rents.                                                              *)
set_default_rents(r) == [spl |-> "set", t22 |-> "set"]

\* Both fetches, an error, or the timeout; then the updater starts.
update_rents ==
  /\ \/ at = "rent" /\ at' = "rent2" /\ rents' = [rents EXCEPT !.spl = "set"] /\ UNCHANGED updater
     \/ at = "rent2" /\ at' = "channels" /\ rents' = [rents EXCEPT !.t22 = "set"] /\ updater' = TRUE
     \/ at \in {"rent", "rent2"} /\ at' = "channels" /\ rents' = set_default_rents(rents) /\ updater' = TRUE
  /\ UNCHANGED <<setup, infra, clients, sender_thread_cores, accounts>>

\* A round of it: both fetches, or an error before the first or the second.
start_rent_updater ==
  /\ updater /\ rents' \in {rents, [rents EXCEPT !.spl = "set"], [spl |-> "set", t22 |-> "set"]}
  /\ UNCHANGED <<at, updater, setup, infra, clients, sender_thread_cores, accounts>>

-----------------------------------------------------------------------------
(* The channels.                                                           *)
get_swqos_client ==
  /\ at = "channels" /\ next <= Len(configs) /\ next' = next + 1
  /\ \/ configs[next] \notin SWQOS_BLACKLIST /\ swqos_clients' = Append(swqos_clients, configs[next])
     \/ configs[next] \in SWQOS_BLACKLIST \cup Fallible /\ UNCHANGED swqos_clients
  /\ UNCHANGED <<at, setup, rents, updater, num_cores, configs, from_end, max_sender_concurrency,
                 effective_core_ids, clients, sender_thread_cores, accounts>>

\* Mutated form: no sender at all when no core is known.
cap_unclamped(count) == Least(count, (2 * num_cores) \div 3)
cap_of(count) == Most(Least(count, Most((2 * num_cores) \div 3, 1)), 1)

fallback == IF swqos_clients = <<>> THEN <<"Default">> ELSE swqos_clients

\* With no channel left, the plain RPC node; then how many send, and where.
FinishInfrastructure ==
  /\ at = "channels" /\ next > Len(configs) /\ at' = "balance"
  /\ swqos_clients' = fallback
  /\ LET cap == cap_of(Len(fallback)) IN
       /\ max_sender_concurrency' = cap
       /\ effective_core_ids' = IF from_end /\ num_cores >= cap THEN num_cores - cap .. num_cores - 1
                                ELSE 0 .. Least(cap, num_cores) - 1
  /\ UNCHANGED <<setup, rents, updater, num_cores, configs, from_end, next, clients,
                 sender_thread_cores, accounts>>

recommended_sender_thread_core_indices(count) ==
  LET cap == Least(cap_of(count), num_cores) IN num_cores - cap .. num_cores - 1

-----------------------------------------------------------------------------
(* The clients.                                                            *)
\* TradingClient::new looks at the balance, which is 0 for it after a timeout,
\* and creates the account before it returns.
CheckBalance ==
  /\ at = "balance"
  /\ \/ /\ setup /\ sol[Main] # "none"
        /\ at' = "ensure" /\ ensure' = [ensure EXCEPT ![Main].at = "check"] /\ UNCHANGED clients
     \/ at' = "ready" /\ clients' = clients \cup {Main} /\ UNCHANGED ensure
  /\ UNCHANGED <<setup, rents, updater, infra, sender_thread_cores, sol, ata, inflight, unseen, aborted>>

FinishClient ==
  /\ at = "ensure" /\ ensure[Main].at = "done"
  /\ at' = "ready" /\ clients' = clients \cup {Main}
  /\ UNCHANGED <<setup, rents, updater, infra, sender_thread_cores, accounts>>

\* from_infrastructure, and from_infrastructure_with_wsol_setup, which starts
\* the creation as a task of its own.
from_infrastructure(w, create_wsol_ata) ==
  /\ at \in {"balance", "ensure", "ready"} /\ w \notin clients \cup {Main}
  /\ clients' = clients \cup {w}
  /\ ensure' = IF create_wsol_ata THEN [ensure EXCEPT ![w].at = "check"] ELSE ensure
  /\ UNCHANGED <<at, setup, rents, updater, infra, sender_thread_cores, sol, ata, inflight, unseen, aborted>>

with_dedicated_sender_threads(w, core_indices) ==
  /\ w \in clients
  /\ sender_thread_cores' = [sender_thread_cores EXCEPT ![w] =
       Least(Cardinality(core_indices), max_sender_concurrency)]
  /\ UNCHANGED <<at, setup, rents, updater, infra, clients, accounts>>

-----------------------------------------------------------------------------
(* ensure_wsol_ata for a wallet.                                           *)
Elsewhere == UNCHANGED <<at, setup, rents, updater, infra, clients, sender_thread_cores, sol>>
Set(w, pc) == ensure' = [ensure EXCEPT ![w].at = pc]

\* The account is there, or it is not, or the node does not answer.
ensure_wsol_ata(w) ==
  /\ ensure[w].at = "check"
  /\ \/ w \in ata /\ Set(w, "done") /\ UNCHANGED unseen
     \/ /\ ensure' = [ensure EXCEPT ![w] = [at |-> "create", attempt |-> 1]]
        /\ unseen' = IF w \in ata THEN unseen \cup {w} ELSE unseen
  /\ Elsewhere /\ UNCHANGED <<ata, inflight, aborted>>

\* An attempt that failed: the next one, or the end of the process.
\* Mutated form: the attempts are not counted.
AttemptFails_uncounted(w) == Set(w, "create") /\ UNCHANGED aborted
AttemptFails(w) ==
  IF ensure[w].attempt < MAX_RETRIES
    THEN /\ ensure' = [ensure EXCEPT ![w] = [at |-> "create", attempt |-> @.attempt + 1]]
         /\ UNCHANGED aborted
    ELSE Set(w, "panic") /\ aborted' = aborted \cup {w}

SendCreate(w) ==
  /\ ensure[w].at = "create"
  /\ \/ Set(w, "confirm") /\ inflight' = inflight \cup {<<w, ensure[w].attempt>>} /\ UNCHANGED aborted
     \/ AttemptFails(w) /\ UNCHANGED inflight                       \* no blockhash
  /\ Elsewhere /\ UNCHANGED <<ata, unseen>>

\* {w} if the attempt's transaction may still land.
Pending(w) == {w} \cap {tx[1] : tx \in inflight}

\* Mutated form: an error is taken for a failure without looking at the account.
try_create_wsol_ata_once_blind(w) ==
  /\ ensure[w].at = "confirm"
  /\ \/ <<w, ensure[w].attempt>> \notin inflight /\ w \in ata /\ Set(w, "done") /\ UNCHANGED <<unseen, aborted>>
     \/ AttemptFails(w) /\ unseen' = unseen \cup Pending(w)
     \/ AttemptFails(w) /\ unseen' = unseen \cup {w}
  /\ Elsewhere /\ UNCHANGED <<ata, inflight>>
\* It is confirmed; or an error comes back, after which the account is looked
\* for; or that look is not answered either, or the wait timed out, after
\* which there is no look.
try_create_wsol_ata_once(w) ==
  /\ ensure[w].at = "confirm"
  /\ \/ <<w, ensure[w].attempt>> \notin inflight /\ w \in ata /\ Set(w, "done") /\ UNCHANGED <<unseen, aborted>>
     \/ w \in ata /\ Set(w, "done") /\ UNCHANGED <<unseen, aborted>>
     \/ w \notin ata /\ AttemptFails(w) /\ unseen' = unseen \cup Pending(w)
     \/ AttemptFails(w) /\ unseen' = unseen \cup {w}
  /\ Elsewhere /\ UNCHANGED <<ata, inflight>>

\* The chain executes a creation, which does nothing when the account is there
\* and fails when the wallet cannot pay for it; or it expires.
LandCreate ==
  /\ \E tx \in inflight :
       /\ inflight' = inflight \ {tx}
       /\ ata' = IF sol[tx[1]] = "enough" THEN ata \cup {tx[1]} ELSE ata
  /\ Elsewhere /\ UNCHANGED <<ensure, unseen, aborted>>
ExpireCreate ==
  /\ \E tx \in inflight : inflight' = inflight \ {tx}
  /\ Elsewhere /\ UNCHANGED <<ata, ensure, unseen, aborted>>

-----------------------------------------------------------------------------
\* The SDK's release profile aborts the process at a panic, in a background task
\* too.  In a program with a profile of its own only that task would end; what the
\* others do after that is left out.
NewStep == update_rents \/ get_swqos_client \/ FinishInfrastructure \/ CheckBalance \/ FinishClient
EnsureStep(w) == ensure_wsol_ata(w) \/ SendCreate(w) \/ try_create_wsol_ata_once(w)

Next ==
  /\ aborted = {}
  /\ \/ NewStep \/ start_rent_updater \/ LandCreate \/ ExpireCreate
     \/ \E w \in Wallets : EnsureStep(w)
     \/ \E w \in Wallets, c \in BOOLEAN : from_infrastructure(w, c)
     \/ \E w \in Wallets, count \in {1, 2} :
          with_dedicated_sender_threads(w, recommended_sender_thread_core_indices(count))

\* Every wait of the start-up ends, by an answer, an error or its timeout.
Spec ==
  /\ Init /\ [][Next]_vars
  /\ WF_vars(aborted = {} /\ NewStep)
  /\ \A w \in Wallets : WF_vars(aborted = {} /\ EnsureStep(w))

-----------------------------------------------------------------------------
\* A client is never handed out before both rents are known: with the seed
\* option the first purchase reads them and panics when one is not
\* (fast_fn.rs:117, seed.rs:66), however the fetches ended.
RentReady == clients # {} => "unset" \notin {rents.spl, rents.t22}

\* A client always has a channel ("at least one Rpc Default is kept",
\* lib.rs:177), at least one sender and no more senders than channels; the
\* cores it uses exist and are as many as the senders, as far as there are.
ChannelsReady ==
  clients # {} =>
    /\ swqos_clients # <<>>
    /\ max_sender_concurrency \in 1 .. Len(swqos_clients)
    /\ effective_core_ids \subseteq 0 .. num_cores - 1
    /\ Cardinality(effective_core_ids) = Least(max_sender_concurrency, num_cores)
    /\ \A w \in clients : sender_thread_cores[w] <= max_sender_concurrency

\* TradingClient::new hands out a client only over an infrastructure that is
\* complete: both rents, the channels and the senders, whatever failed before.
ClientReady == RentReady /\ ChannelsReady

\* "creation failed and account does not exist" (lib.rs:622): the process is
\* aborted over a wallet's account only when that is so, or when a look at it
\* or a confirmation went unanswered, or a creation given up could still land.
AbortExplained == \A w \in aborted : w \notin ata \/ w \in unseen

\* The start-up ends, and so does every creation in the background.
StartupEnds == []<>(aborted # {} \/ (at = "ready" /\ \A w \in Wallets : ensure[w].at \in {"off", "done"}))
=============================================================================
