---------------------------- MODULE QuoteSymbols ----------------------------
(***************************************************************************)
(* The quote symbols the bot trades and the approvals they need: the end   *)
(* of src/new-pair-trading/new-pair-trading.service.ts, AddressApproval-   *)
(* Cache and enableTradeForToken.                                          *)
(*                                                                         *)
(* A list of symbols lives in memory and in table app_configs, a set of    *)
(* approved tokens in memory, in table approved_contracts and, as an       *)
(* allowance of the router, on the chain.  A symbol of CommonBscQuote-     *)
(* Symbol stands for its token; the row of app_configs may hold others.    *)
(* A call is suspended at the await its "pc" names; the writes of table    *)
(* approved_contracts are not awaited and reach it in any order or never.  *)
(***************************************************************************)
EXTENDS Naturals, FiniteSets

CONSTANTS
  Symbols,       \* symbols a list may name
  Listed,        \* those of CommonBscQuoteSymbol, which all have a token
  Calls,         \* slots for running calls
  Boot,          \* the slot that loads the symbols when the process starts
  MaxMutations,  \* bound: mutations an operator fires
  MaxCrashes,    \* bound: restarts of the process
  None           \* no token

ASSUME QuoteAssumption ==
  /\ Boot \in Calls
  /\ Listed \subseteq Symbols
  /\ None \notin Symbols
  /\ MaxMutations \in Nat /\ MaxCrashes \in Nat

VARIABLES
  quotes,     \* activeQuoteSymbols
  config,     \* table app_configs, the row activeQuoteSymbols
  approved,   \* approvedAddresses, the map of AddressApprovalCache
  rows,       \* table approved_contracts
  writes,     \* writes of approved_contracts under way
  allowance,  \* tokens the router may spend, on the chain
  run,        \* the calls
  loader,     \* AddressApprovalCache.loadData
  snapshot,   \* the rows it has read
  mutations, crashes,
  touched,    \* tokens an approval of which failed or which were revoked
  unsettled   \* did calls that set the symbols overlap, or the last one fail

vars == <<quotes, config, approved, rows, writes, allowance, run, loader,
          snapshot, mutations, crashes, touched, unsettled>>

chain == <<allowance, touched>>
cache == <<approved, rows, writes, loader, snapshot>>
bounds == <<mutations, crashes>>

PCs == {"idle", "readConfig", "next", "approve", "cache", "save"}

NoCall == [pc |-> "idle", kind |-> "none", list |-> {}, todo |-> {},
           token |-> None, enable |-> TRUE]

CallStates == [pc : PCs, kind : {"none", "load", "set", "approve"},
               list : SUBSET Listed, todo : SUBSET Symbols,
               token : Listed \cup {None}, enable : BOOLEAN]

Writes == [token : Listed, approved : BOOLEAN]

TypeOK ==
  /\ {quotes, config} \subseteq SUBSET Symbols
  /\ {approved, rows, allowance, snapshot, touched} \subseteq SUBSET Listed
  /\ writes \subseteq Writes
  /\ run \in [Calls -> CallStates]
  /\ loader \in {"read", "add", "done", "failed"}
  /\ mutations \in 0..MaxMutations /\ crashes \in 0..MaxCrashes
  /\ unsettled \in BOOLEAN

\* The constructor starts to load the symbols.
Started ==
  [c \in Calls |-> IF c = Boot
                   THEN [NoCall EXCEPT !.pc = "readConfig", !.kind = "load"]
                   ELSE NoCall]

Init ==
  /\ quotes = {} /\ config \in SUBSET Symbols
  /\ approved = {} /\ rows = {} /\ writes = {} /\ allowance = {}
  /\ run = Started
  /\ loader = "read" /\ snapshot = {}
  /\ mutations = 0 /\ crashes = 0
  /\ touched = {} /\ unsettled = FALSE

-----------------------------------------------------------------------------
(* The symbols *)

At(c, pc) == run[c].pc = pc
Goto(c, r) == run' = [run EXCEPT ![c] = r]
Setters == {c \in Calls : run[c].kind \in {"load", "set"}}

Finished(r) == IF r.kind = "set" THEN [r EXCEPT !.pc = "save"] ELSE NoCall

\* enableTokenTradingWithCache returns at once.
AlreadyListed(s) ==  \* mutant: a symbol of the table is taken for approved
  s \in config
IsApproved(s) == s \in approved

\* The call sets s and waits for the approval of its token; left are those
\* it has yet to set.
Asking(r, s, left) ==
  IF IsApproved(s)
  THEN [r EXCEPT !.pc = "next", !.todo = left]
  ELSE [r EXCEPT !.pc = "approve", !.todo = left, !.token = s]

\* The loop over the symbols goes on, on the map q: it sets symbols without
\* a token, which it need not wait for, up to the next one that has a token
\* or to the end.
Enter(c, r, q) ==
  \/ /\ r.todo \cap Listed = {}
     /\ quotes' = q \cup r.todo
     /\ Goto(c, Finished([r EXCEPT !.todo = {}]))
  \/ \E s \in r.todo \cap Listed, passed \in SUBSET (r.todo \ Listed) :
       /\ quotes' = q \cup passed \cup {s}
       /\ Goto(c, Asking(r, s, r.todo \ (passed \cup {s})))

\* loadSupportedQuoteSymbols: the map is a new one once the row is read.
LoadSupportedQuoteSymbols(c) ==
  /\ At(c, "readConfig")
  /\ Enter(c, [run[c] EXCEPT !.todo = config], {})
  /\ UNCHANGED <<config, cache, chain, bounds, unsettled>>

SetCall(list) == [NoCall EXCEPT !.kind = "set", !.list = list, !.todo = list]

\* setSupportedQuoteSymbols: the list without the symbols that are unknown;
\* a new map first, the table at the end.
MapKept(c, list) ==  \* mutant: the symbols of before stay
  /\ At(c, "idle") /\ mutations < MaxMutations
  /\ mutations' = mutations + 1
  /\ unsettled' = (Setters # {})
  /\ Enter(c, SetCall(list \cap Listed), quotes)
  /\ UNCHANGED <<config, cache, chain, crashes>>
Unfiltered(c, list) ==  \* mutant: unknown symbols are let in
  /\ At(c, "idle") /\ mutations < MaxMutations
  /\ mutations' = mutations + 1
  /\ unsettled' = (Setters # {})
  /\ Enter(c, SetCall(list), {})
  /\ UNCHANGED <<config, cache, chain, crashes>>
SetSupportedQuoteSymbols(c, list) ==
  /\ At(c, "idle") /\ mutations < MaxMutations
  /\ mutations' = mutations + 1
  /\ unsettled' = (Setters # {})
  /\ Enter(c, SetCall(list \cap Listed), {})
  /\ UNCHANGED <<config, cache, chain, crashes>>

NextSymbol(c) ==
  /\ At(c, "next")
  /\ Enter(c, run[c], quotes)
  /\ UNCHANGED <<config, cache, chain, bounds, unsettled>>

SaveConfig(c) ==
  /\ At(c, "save")
  /\ config' = run[c].list
  /\ Goto(c, NoCall)
  /\ UNCHANGED <<quotes, cache, chain, bounds, unsettled>>

\* The database refuses a read or a write of app_configs: the call throws.
DbError(c) ==
  /\ run[c].pc \in {"readConfig", "save"}
  /\ Goto(c, NoCall)
  /\ unsettled' = TRUE
  /\ UNCHANGED <<quotes, config, cache, chain, bounds>>

-----------------------------------------------------------------------------
(* The approvals *)

\* The mutation approveToken.
ApproveToken(c, s, enable) ==
  /\ At(c, "idle") /\ mutations < MaxMutations
  /\ ~(enable /\ IsApproved(s))
  /\ mutations' = mutations + 1
  /\ Goto(c, [NoCall EXCEPT !.pc = "approve", !.kind = "approve",
                            !.token = s, !.enable = enable])
  /\ UNCHANGED <<quotes, config, cache, chain, crashes, unsettled>>

With(S, t, present) == IF present THEN S \cup {t} ELSE S \ {t}

\* enableTradeForToken: the approval is mined, whether or not its receipt
\* comes back; or it fails.  The catch block hides which.
NotAwaited(c) ==  \* mutant: the transaction is not waited for
  /\ At(c, "approve")
  /\ Goto(c, [run[c] EXCEPT !.pc = "cache"])
  /\ touched' = IF run[c].enable THEN touched ELSE touched \cup {run[c].token}
  /\ UNCHANGED <<quotes, config, cache, allowance, bounds, unsettled>>
EnableTradeForToken(c) ==
  LET r == run[c]
  IN  /\ At(c, "approve")
      /\ Goto(c, [r EXCEPT !.pc = "cache"])
      /\ \/ /\ allowance' = With(allowance, r.token, r.enable)
            /\ touched' = IF r.enable THEN touched ELSE touched \cup {r.token}
         \/ /\ touched' = touched \cup {r.token}
            /\ UNCHANGED allowance
      /\ UNCHANGED <<quotes, config, cache, bounds, unsettled>>

\* AddressApprovalCache.set, the memory first, and back to the loop.
CacheApproval(c) ==
  LET r == run[c]
  IN  /\ At(c, "cache")
      /\ approved' = With(approved, r.token, r.enable)
      /\ writes' = writes \cup {[token |-> r.token, approved |-> r.enable]}
      /\ Enter(c, [r EXCEPT !.token = None], quotes)
      /\ UNCHANGED <<config, rows, loader, snapshot, chain, bounds, unsettled>>

\* A write reaches the table, in any order, or fails.
ApplyWrite(w) ==
  /\ w \in writes
  /\ writes' = writes \ {w}
  /\ rows' \in {rows, With(rows, w.token, w.approved)}
  /\ UNCHANGED <<quotes, config, approved, loader, snapshot, chain, run,
                 bounds, unsettled>>

\* loadData reads the rows of the wallet, then adds them to the map.
ReadApprovals ==
  /\ loader = "read"
  /\ \/ loader' = "add" /\ snapshot' = rows
     \/ loader' = "failed" /\ UNCHANGED snapshot
  /\ UNCHANGED <<quotes, config, approved, rows, writes, chain, run, bounds,
                 unsettled>>

MapReplaced ==  \* mutant: the map is made anew of the rows
  /\ loader = "add"
  /\ loader' = "done"
  /\ approved' = snapshot
  /\ snapshot' = {}
  /\ UNCHANGED <<quotes, config, rows, writes, chain, run, bounds, unsettled>>
AddApprovals ==
  /\ loader = "add"
  /\ loader' = "done"
  /\ approved' = approved \cup snapshot
  /\ snapshot' = {}
  /\ UNCHANGED <<quotes, config, rows, writes, chain, run, bounds, unsettled>>

-----------------------------------------------------------------------------
\* The process stops and starts again; the writes under way are lost.
Crash ==
  /\ crashes < MaxCrashes
  /\ crashes' = crashes + 1
  /\ quotes' = {} /\ approved' = {} /\ writes' = {}
  /\ run' = Started
  /\ loader' = "read" /\ snapshot' = {}
  /\ unsettled' = FALSE
  /\ UNCHANGED <<config, rows, chain, mutations>>

Handle(c) ==
  \/ LoadSupportedQuoteSymbols(c) \/ NextSymbol(c) \/ SaveConfig(c)
  \/ DbError(c) \/ EnableTradeForToken(c) \/ CacheApproval(c)

Next ==
  \/ \E c \in Calls : Handle(c)
  \/ \E c \in Calls, list \in SUBSET Symbols : SetSupportedQuoteSymbols(c, list)
  \/ \E c \in Calls, s \in Listed, enable \in BOOLEAN :
       ApproveToken(c, s, enable)
  \/ \E w \in Writes : ApplyWrite(w)
  \/ ReadApprovals \/ AddApprovals \/ Crash

Spec == Init /\ [][Next]_vars

-----------------------------------------------------------------------------
(* Properties *)

\* When no call is setting the symbols, the memory and the table agree,
\* unless such calls overlapped or the last one failed: a restart does not
\* change what is traded.
QuotesSettled == ~unsettled /\ Setters = {} => quotes = config

\* A symbol is traded only when its token is approved or being approved;
\* left out are symbols of the table that are unknown and tokens an approval
\* of which failed or which were revoked.
ActiveIsApproved ==
  \A s \in (quotes \cap Listed) \ touched :
    \/ s \in approved
    \/ \E c \in Calls : run[c].pc \in {"approve", "cache"} /\ run[c].token = s

\* With the same exception the map and the table never claim more than the
\* chain gives, across lost and reordered writes and restarts.
CachedIsAllowed == (approved \cup rows) \ touched \subseteq allowance

\* Once loadData is done the map knows every token of the table: what was
\* approved while it was loading is not forgotten.
LoadedIsCached == loader = "done" => rows \ touched \subseteq approved
=============================================================================
