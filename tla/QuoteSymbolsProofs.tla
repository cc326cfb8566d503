-------------------------- MODULE QuoteSymbolsProofs --------------------------
(* Theorems about QuoteSymbols, for every set of symbols and of calls, any *)
(* number of mutations and of restarts.                                    *)
EXTENDS QuoteSymbols, TLAPS

\* What the locals of a call look like at each await.
WellFormed(r) ==
  /\ r.pc \in {"approve", "cache"} => r.token \in Listed
  /\ r.pc = "idle" <=> r.kind = "none"
  /\ r.pc = "readConfig" => r.kind = "load"
  /\ r.pc = "save" => r.kind = "set" /\ r.todo = {}
  /\ r.kind = "approve" => r.todo = {}

Typed == TypeOK /\ \A c \in Calls : WellFormed(run[c])

\* A token the map, the table, a write, what loadData has read or a call
\* takes for approved is approved, unless it was touched; and a token that
\* is being revoked was touched.
Claims == /\ approved \cup rows \cup snapshot \subseteq allowance \cup touched
          /\ \A w \in writes : w.approved => w.token \in allowance \cup touched
          /\ \A c \in Calls : run[c].pc = "cache" =>
               IF run[c].enable THEN run[c].token \in allowance \cup touched
                                ELSE run[c].token \in touched

\* A row on its way to the table is in the map; one that loadData adds or
\* has added is in the map or in what it read.
Cached == /\ \A w \in writes : w.approved => w.token \in approved \cup touched
          /\ loader = "add" => rows \subseteq approved \cup snapshot \cup touched
          /\ loader = "done" => rows \subseteq approved \cup touched

\* Unless calls overlapped or failed, one call at most sets the symbols, and
\* the map lacks of its list only what the call has yet to do.
Lone == ~unsettled =>
  /\ \A c, d \in Setters : c = d
  /\ \A c \in Calls :
       /\ run[c].kind = "set" =>
            run[c].todo \subseteq run[c].list /\ quotes = run[c].list \ run[c].todo
       /\ run[c].kind = "load" /\ run[c].pc # "readConfig" =>
            run[c].todo \subseteq config /\ quotes = config \ run[c].todo
  /\ Setters = {} => quotes = config

-----------------------------------------------------------------------------
(* Lemmas *)

LEMMA NoCallTyped == NoCall \in CallStates /\ WellFormed(NoCall)
BY DEF NoCall, CallStates, PCs, WellFormed

LEMMA ListedKnown == Listed \subseteq Symbols
BY QuoteAssumption DEF QuoteAssumption

\* The record with which a call waits for the approval of a token.
LEMMA AskingTyped ==
  ASSUME NEW r \in CallStates, NEW s \in Listed, NEW left \in SUBSET Symbols,
         r.kind # "none", r.kind # "approve"
  PROVE  /\ Asking(r, s, left) \in CallStates
         /\ WellFormed(Asking(r, s, left))
         /\ Asking(r, s, left).pc \in {"next", "approve"}
         /\ Asking(r, s, left).kind = r.kind
         /\ Asking(r, s, left).list = r.list
         /\ Asking(r, s, left).todo = left
         /\ s \notin approved => /\ Asking(r, s, left).pc = "approve"
                                 /\ Asking(r, s, left).token = s
<1> DEFINE listed == [r EXCEPT !.pc = "next", !.todo = left]
           asked == [r EXCEPT !.pc = "approve", !.todo = left, !.token = s]
<1>1. /\ listed \in CallStates /\ WellFormed(listed) /\ listed.pc = "next"
      /\ listed.kind = r.kind /\ listed.list = r.list /\ listed.todo = left
  BY DEF CallStates, PCs, WellFormed
<1>2. /\ asked \in CallStates /\ WellFormed(asked) /\ asked.pc = "approve"
      /\ asked.kind = r.kind /\ asked.list = r.list /\ asked.todo = left
      /\ asked.token = s
  BY DEF CallStates, PCs, WellFormed
<1>3. Asking(r, s, left) = IF s \in approved THEN listed ELSE asked
  BY DEF Asking, IsApproved
<1> HIDE DEF listed, asked
<1> QED
  BY <1>1, <1>2, <1>3

\* The record with which a call leaves the loop.
LEMMA FinishedTyped ==
  ASSUME NEW r \in CallStates, r.kind # "none"
  PROVE  LET s == Finished([r EXCEPT !.todo = {}])
         IN  /\ s \in CallStates /\ WellFormed(s) /\ s.pc \in {"idle", "save"}
             /\ r.kind = "set" => /\ s.kind = "set" /\ s.list = r.list
                                  /\ s.todo = {}
             /\ r.kind # "set" => s.kind = "none"
<1> DEFINE done == [[r EXCEPT !.todo = {}] EXCEPT !.pc = "save"]
<1>1. CASE r.kind = "set"
  <2>1. Finished([r EXCEPT !.todo = {}]) = done
    BY <1>1 DEF Finished, CallStates
  <2>2. /\ done \in CallStates /\ done.pc = "save" /\ done.kind = r.kind
        /\ done.list = r.list /\ done.todo = {}
    BY DEF CallStates, PCs
  <2> HIDE DEF done
  <2> QED
    BY <1>1, <2>1, <2>2 DEF WellFormed
<1>2. CASE r.kind # "set"
  <2>1. Finished([r EXCEPT !.todo = {}]) = NoCall
    BY <1>2 DEF Finished, CallStates
  <2> QED
    BY <1>2, <2>1, NoCallTyped DEF NoCall
<1> QED
  BY <1>1, <1>2

\* What the loop over the symbols does to the call it runs in.
LEMMA EnterCall ==
  ASSUME TypeOK, NEW c \in Calls, NEW r \in CallStates,
         NEW q \in SUBSET Symbols, Enter(c, r, q),
         r.kind # "none", r.kind = "approve" => r.todo = {}
  PROVE  /\ run' \in [Calls -> CallStates] /\ quotes' \in SUBSET Symbols
         /\ \A d \in Calls : d # c => run'[d] = run[d]
         /\ WellFormed(run'[c])
         /\ run'[c].pc \in {"idle", "save", "next", "approve"}
<1>1. r.todo \in SUBSET Symbols
  BY DEF CallStates
<1>2. CASE /\ quotes' = q \cup r.todo
           /\ Goto(c, Finished([r EXCEPT !.todo = {}]))
  BY <1>1, <1>2, FinishedTyped DEF Goto, TypeOK
<1>3. ASSUME NEW s \in r.todo \cap Listed, NEW passed \in SUBSET r.todo,
             quotes' = q \cup passed \cup {s},
             Goto(c, Asking(r, s, r.todo \ (passed \cup {s})))
      PROVE  /\ run' \in [Calls -> CallStates] /\ quotes' \in SUBSET Symbols
             /\ \A d \in Calls : d # c => run'[d] = run[d]
             /\ WellFormed(run'[c]) /\ run'[c].pc \in {"next", "approve"}
  <2> DEFINE left == r.todo \ (passed \cup {s})
  <2>1. left \in SUBSET Symbols /\ r.kind # "approve"
    BY <1>1
  <2>2. Asking(r, s, left) \in CallStates /\ WellFormed(Asking(r, s, left))
        /\ Asking(r, s, left).pc \in {"next", "approve"}
    BY <2>1, AskingTyped
  <2> QED
    BY <1>1, <1>3, <2>2 DEF Goto, TypeOK
<1> QED
  BY <1>2, <1>3 DEF Enter

\* What it does to the symbols: those of the call that are done are set, and
\* of those that have a token the last one is approved or being approved.
LEMMA EnterSymbols ==
  ASSUME TypeOK, NEW c \in Calls, NEW r \in CallStates,
         NEW q \in SUBSET Symbols, Enter(c, r, q),
         r.kind # "none", r.kind = "approve" => r.todo = {}
  PROVE  /\ \/ /\ run'[c].kind = r.kind /\ run'[c].list = r.list
               /\ run'[c].todo \subseteq r.todo
               /\ quotes' = q \cup (r.todo \ run'[c].todo)
            \/ /\ run'[c].kind = "none" /\ r.kind # "set"
               /\ quotes' = q \cup r.todo
         /\ \A s \in (quotes' \cap Listed) \ q :
              \/ s \in approved
              \/ run'[c].pc = "approve" /\ run'[c].token = s
<1>1. CASE /\ r.todo \cap Listed = {}
           /\ quotes' = q \cup r.todo
           /\ Goto(c, Finished([r EXCEPT !.todo = {}]))
  <2>1. run'[c] = Finished([r EXCEPT !.todo = {}])
    BY <1>1 DEF Goto, TypeOK
  <2> QED
    BY <1>1, <2>1, FinishedTyped
<1>2. ASSUME NEW s \in r.todo \cap Listed,
             NEW passed \in SUBSET (r.todo \ Listed),
             quotes' = q \cup passed \cup {s},
             Goto(c, Asking(r, s, r.todo \ (passed \cup {s})))
      PROVE  /\ run'[c].kind = r.kind /\ run'[c].list = r.list
             /\ run'[c].todo \subseteq r.todo
             /\ quotes' = q \cup (r.todo \ run'[c].todo)
             /\ \A t \in (quotes' \cap Listed) \ q :
                  \/ t \in approved
                  \/ run'[c].pc = "approve" /\ run'[c].token = t
  <2> DEFINE left == r.todo \ (passed \cup {s})
  <2>1. left \in SUBSET Symbols /\ r.kind # "approve"
    BY DEF CallStates
  <2>2. run'[c] = Asking(r, s, left)
    BY <1>2 DEF Goto, TypeOK
  <2>3. /\ run'[c].kind = r.kind /\ run'[c].list = r.list
        /\ run'[c].todo = left
        /\ s \notin approved => run'[c].pc = "approve" /\ run'[c].token = s
    BY <2>1, <2>2, AskingTyped
  <2>4. \A t \in (quotes' \cap Listed) \ q : t = s
    BY <1>2
  <2> QED
    BY <1>2, <2>3, <2>4
<1> QED
  BY <1>1, <1>2 DEF Enter

\* A call that does not run the loop moves to a record r.
LEMMA CallMoves ==
  ASSUME TypeOK, NEW c \in Calls, NEW r \in CallStates, Goto(c, r)
  PROVE  /\ run' \in [Calls -> CallStates] /\ run'[c] = r
         /\ \A d \in Calls : d # c => run'[d] = run[d]
BY DEF TypeOK, Goto

\* The records with which the actions enter the loop or leave an await.
LEMMA RecordsTyped ==
  ASSUME Typed, NEW c \in Calls
  PROVE  /\ At(c, "readConfig") =>
              /\ [run[c] EXCEPT !.todo = config] \in CallStates
              /\ run[c].kind = "load"
         /\ At(c, "cache") =>
              /\ [run[c] EXCEPT !.token = None] \in CallStates
              /\ run[c].token \in Listed
         /\ At(c, "approve") =>
              /\ [run[c] EXCEPT !.pc = "cache"] \in CallStates
              /\ WellFormed([run[c] EXCEPT !.pc = "cache"])
              /\ run[c].token \in Listed
         /\ \A list :
              LET r == SetCall(list \cap Listed)
              IN  /\ r \in CallStates /\ r.kind = "set" /\ r.pc = "idle"
                  /\ r.todo = r.list
         /\ \A s \in Listed, enable \in BOOLEAN :
              LET r == [NoCall EXCEPT !.pc = "approve", !.kind = "approve",
                                      !.token = s, !.enable = enable]
              IN  r \in CallStates /\ WellFormed(r)
<1>1. run[c] \in CallStates /\ WellFormed(run[c]) /\ config \in SUBSET Symbols
  BY DEF Typed, TypeOK
<1>2. At(c, "readConfig") => /\ [run[c] EXCEPT !.todo = config] \in CallStates
                             /\ run[c].kind = "load"
  BY <1>1 DEF At, CallStates, WellFormed
<1>3. At(c, "cache") => /\ [run[c] EXCEPT !.token = None] \in CallStates
                        /\ run[c].token \in Listed
  BY <1>1 DEF At, CallStates, WellFormed
<1>4. At(c, "approve") => /\ [run[c] EXCEPT !.pc = "cache"] \in CallStates
                          /\ WellFormed([run[c] EXCEPT !.pc = "cache"])
                          /\ run[c].token \in Listed
  BY <1>1 DEF At, CallStates, WellFormed, PCs
<1>5. \A list :
         LET r == SetCall(list \cap Listed)
         IN  /\ r \in CallStates /\ r.kind = "set" /\ r.pc = "idle"
             /\ r.todo = r.list
  BY ListedKnown DEF SetCall, NoCall, CallStates, PCs
<1>6. \A s \in Listed, enable \in BOOLEAN :
         LET r == [NoCall EXCEPT !.pc = "approve", !.kind = "approve",
                                 !.token = s, !.enable = enable]
         IN  r \in CallStates /\ WellFormed(r)
  BY DEF NoCall, CallStates, PCs, WellFormed
<1> QED
  BY <1>2, <1>3, <1>4, <1>5, <1>6

-----------------------------------------------------------------------------
(* Types *)

\* An action that runs the loop in the call c, or moves c to a record.
LEMMA CallsTyped ==
  ASSUME Typed, NEW c \in Calls,
         run' \in [Calls -> CallStates], WellFormed(run'[c]),
         \A d \in Calls : d # c => run'[d] = run[d]
  PROVE  \A d \in Calls : WellFormed(run'[d])
BY DEF Typed

LEMMA HandleTyped ==
  ASSUME Typed, NEW c \in Calls, Handle(c)
  PROVE  Typed'
<1> USE DEF cache, chain, bounds
<1>1. run[c] \in CallStates /\ WellFormed(run[c]) /\ TypeOK
  BY DEF Typed, TypeOK
<1>2. CASE LoadSupportedQuoteSymbols(c)
  <2> DEFINE r == [run[c] EXCEPT !.todo = config]
  <2>1. r \in CallStates /\ r.kind = "load" /\ Enter(c, r, {})
    BY <1>1, <1>2, RecordsTyped DEF LoadSupportedQuoteSymbols, CallStates
  <2> HIDE DEF r
  <2>2. /\ run' \in [Calls -> CallStates] /\ quotes' \in SUBSET Symbols
        /\ WellFormed(run'[c])
        /\ \A d \in Calls : d # c => run'[d] = run[d]
    BY <1>1, <2>1, EnterCall
  <2>3. \A d \in Calls : WellFormed(run'[d])
    BY <2>2, CallsTyped
  <2> QED
    BY <1>1, <1>2, <2>2, <2>3 DEF LoadSupportedQuoteSymbols, Typed, TypeOK
<1>3. CASE NextSymbol(c)
  <2>1. run[c].kind # "none" /\ (run[c].kind = "approve" => run[c].todo = {})
    BY <1>1, <1>3 DEF NextSymbol, At, WellFormed
  <2>2. /\ run' \in [Calls -> CallStates] /\ quotes' \in SUBSET Symbols
        /\ \A d \in Calls : WellFormed(run'[d])
    BY <1>1, <1>3, <2>1, EnterCall, CallsTyped DEF NextSymbol, TypeOK
  <2> QED
    BY <1>1, <1>3, <2>2 DEF NextSymbol, Typed, TypeOK
<1>4. CASE SaveConfig(c) \/ DbError(c)
  <2>1. /\ run' \in [Calls -> CallStates]
        /\ \A d \in Calls : WellFormed(run'[d])
    BY <1>1, <1>4, CallMoves, CallsTyped, NoCallTyped DEF SaveConfig, DbError
  <2>2. run[c].list \in SUBSET Symbols
    BY <1>1, ListedKnown DEF CallStates
  <2> QED
    BY <1>1, <1>4, <2>1, <2>2 DEF SaveConfig, DbError, Typed, TypeOK
<1>5. CASE EnableTradeForToken(c)
  <2>1. /\ run' \in [Calls -> CallStates]
        /\ \A d \in Calls : WellFormed(run'[d])
    BY <1>1, <1>5, RecordsTyped, CallMoves, CallsTyped DEF EnableTradeForToken
  <2>2. run[c].token \in Listed
    BY <1>5, RecordsTyped DEF EnableTradeForToken
  <2>3. {allowance', touched'} \subseteq SUBSET Listed
    BY <1>1, <1>5, <2>2 DEF EnableTradeForToken, With, TypeOK
  <2> QED
    BY <1>1, <1>5, <2>1, <2>3 DEF EnableTradeForToken, Typed, TypeOK
<1>6. CASE CacheApproval(c)
  <2> DEFINE r == [run[c] EXCEPT !.token = None]
  <2>1. r \in CallStates /\ run[c].token \in Listed /\ Enter(c, r, quotes)
    BY <1>1, <1>6, RecordsTyped DEF CacheApproval
  <2>2. r.kind # "none" /\ (r.kind = "approve" => r.todo = {})
    BY <1>1, <1>6 DEF CacheApproval, At, WellFormed, CallStates
  <2>3. /\ run' \in [Calls -> CallStates] /\ quotes' \in SUBSET Symbols
        /\ \A d \in Calls : WellFormed(run'[d])
    BY <1>1, <2>1, <2>2, EnterCall, CallsTyped DEF TypeOK
  <2>4. [token |-> run[c].token, approved |-> run[c].enable] \in Writes
    BY <1>1, <2>1 DEF Writes, CallStates
  <2>5. approved' \in SUBSET Listed /\ writes' \subseteq Writes
    BY <1>1, <1>6, <2>1, <2>4 DEF CacheApproval, With, TypeOK
  <2> QED
    BY <1>1, <1>6, <2>3, <2>5 DEF CacheApproval, Typed, TypeOK
<1> QED
  BY <1>2, <1>3, <1>4, <1>5, <1>6 DEF Handle

LEMMA MutationTyped ==
  ASSUME Typed, NEW c \in Calls,
         \/ \E list \in SUBSET Symbols : SetSupportedQuoteSymbols(c, list)
         \/ \E s \in Listed, enable \in BOOLEAN : ApproveToken(c, s, enable)
  PROVE  Typed'
<1> USE DEF cache, chain, bounds
<1>1. TypeOK /\ MaxMutations \in Nat
  BY QuoteAssumption DEF Typed, QuoteAssumption
<1>2. ASSUME NEW list \in SUBSET Symbols, SetSupportedQuoteSymbols(c, list)
      PROVE  Typed'
  <2> DEFINE r == SetCall(list \cap Listed)
  <2>1. r \in CallStates /\ Enter(c, r, {})
    BY <1>2, RecordsTyped DEF SetSupportedQuoteSymbols
  <2>2. r.kind = "set"
    BY RecordsTyped
  <2> HIDE DEF r
  <2>3. /\ run' \in [Calls -> CallStates] /\ quotes' \in SUBSET Symbols
        /\ WellFormed(run'[c])
        /\ \A d \in Calls : d # c => run'[d] = run[d]
    BY <1>1, <2>1, <2>2, EnterCall
  <2>4. \A d \in Calls : WellFormed(run'[d])
    BY <2>3, CallsTyped
  <2>5. mutations < MaxMutations /\ mutations' = mutations + 1
        /\ unsettled' = (Setters # {})
        /\ UNCHANGED <<config, approved, rows, writes, loader, snapshot,
                       allowance, touched, crashes>>
    BY <1>2 DEF SetSupportedQuoteSymbols
  <2>6. mutations' \in 0..MaxMutations
    BY <1>1, <2>5 DEF TypeOK
  <2>7. unsettled' \in BOOLEAN
    BY <2>5
  <2> QED
    BY <1>1, <2>3, <2>4, <2>5, <2>6, <2>7 DEF Typed, TypeOK
<1>3. ASSUME NEW s \in Listed, NEW enable \in BOOLEAN,
             ApproveToken(c, s, enable)
      PROVE  Typed'
  <2>1. /\ run' \in [Calls -> CallStates]
        /\ \A d \in Calls : WellFormed(run'[d])
    BY <1>1, <1>3, RecordsTyped, CallMoves, CallsTyped DEF ApproveToken
  <2>2. mutations < MaxMutations /\ mutations' = mutations + 1
        /\ UNCHANGED <<quotes, config, approved, rows, writes, loader,
                       snapshot, allowance, touched, crashes, unsettled>>
    BY <1>3 DEF ApproveToken
  <2>3. mutations' \in 0..MaxMutations
    BY <1>1, <2>2 DEF TypeOK
  <2> QED
    BY <1>1, <2>1, <2>2, <2>3 DEF Typed, TypeOK
<1> QED
  BY <1>2, <1>3

LEMMA StartedTyped ==
  Started \in [Calls -> CallStates] /\ \A c \in Calls : WellFormed(Started[c])
<1>1. [NoCall EXCEPT !.pc = "readConfig", !.kind = "load"] \in CallStates
      /\ WellFormed([NoCall EXCEPT !.pc = "readConfig", !.kind = "load"])
  BY DEF NoCall, CallStates, PCs, WellFormed
<1> QED
  BY <1>1, NoCallTyped DEF Started

LEMMA BackgroundTyped ==
  ASSUME Typed,
         (\E w \in Writes : ApplyWrite(w)) \/ ReadApprovals \/ AddApprovals
           \/ Crash
  PROVE  Typed'
<1> USE DEF cache, chain, bounds
<1>1. MaxCrashes \in Nat
  BY QuoteAssumption DEF QuoteAssumption
<1>2. ASSUME NEW w \in Writes, ApplyWrite(w)
      PROVE  Typed'
  <2>1. rows' \in SUBSET Listed
    BY <1>2 DEF ApplyWrite, With, Writes, Typed, TypeOK
  <2> QED
    BY <1>2, <2>1 DEF ApplyWrite, Typed, TypeOK
<1>3. CASE ReadApprovals \/ AddApprovals
  BY <1>3 DEF ReadApprovals, AddApprovals, Typed, TypeOK
<1>4. CASE Crash
  <2>1. crashes' \in 0..MaxCrashes
    BY <1>1, <1>4 DEF Crash, Typed, TypeOK
  <2> QED
    BY <1>4, <2>1, StartedTyped DEF Crash, Typed, TypeOK
<1> QED
  BY <1>2, <1>3, <1>4

LEMMA NextTyped == Typed /\ [Next]_vars => Typed'
<1> SUFFICES ASSUME Typed, [Next]_vars PROVE Typed'
  OBVIOUS
<1>1. CASE UNCHANGED vars
  BY <1>1 DEF vars, Typed, TypeOK
<1>2. CASE Next
  BY <1>2, HandleTyped, MutationTyped, BackgroundTyped DEF Next
<1> QED
  BY <1>1, <1>2

LEMMA InitTyped == Init => Typed
<1>1. 0 \in 0..MaxMutations /\ 0 \in 0..MaxCrashes
  BY QuoteAssumption DEF QuoteAssumption
<1> QED
  BY <1>1, StartedTyped DEF Init, Typed, TypeOK

\* Every variable keeps its type, for any number of calls and restarts.
THEOREM TypeCorrect == Spec => []TypeOK
<1>1. Typed => TypeOK
  BY DEF Typed
<1> QED
  BY <1>1, InitTyped, NextTyped, PTL DEF Spec

-----------------------------------------------------------------------------
(* The approvals *)

Approvals == Typed /\ Claims /\ Cached /\ ActiveIsApproved

\* A call that neither starts nor ends an approval disturbs nothing, as long
\* as the symbols it adds are approved or being approved by it.
LEMMA CallKeepsApprovals ==
  ASSUME Approvals, Typed', NEW c \in Calls,
         run[c].pc \notin {"approve", "cache"}, run'[c].pc # "cache",
         \A d \in Calls : d # c => run'[d] = run[d],
         \A s \in (quotes' \cap Listed) \ quotes :
           \/ s \in approved
           \/ run'[c].pc = "approve" /\ run'[c].token = s,
         UNCHANGED <<approved, rows, writes, loader, snapshot, allowance,
                     touched>>
  PROVE  Approvals'
<1>1. Claims'
  BY DEF Approvals, Claims
<1>2. Cached'
  BY DEF Approvals, Cached
<1>3. ActiveIsApproved'
  BY DEF Approvals, ActiveIsApproved
<1> QED
  BY <1>1, <1>2, <1>3 DEF Approvals

LEMMA EnableTradeKeepsApprovals ==
  ASSUME Approvals, Typed', NEW c \in Calls, EnableTradeForToken(c)
  PROVE  Approvals'
<1> DEFINE t == run[c].token
<1>1. /\ run[c].pc = "approve" /\ run[c] \in CallStates
      /\ run' = [run EXCEPT ![c] = [run[c] EXCEPT !.pc = "cache"]]
      /\ UNCHANGED <<quotes, approved, rows, writes, loader, snapshot>>
  BY DEF EnableTradeForToken, At, Goto, cache, Approvals, Typed, TypeOK
<1>2. /\ run'[c].pc = "cache" /\ run'[c].token = t
      /\ run'[c].enable = run[c].enable
      /\ \A d \in Calls : d # c => run'[d] = run[d]
  BY <1>1 DEF Approvals, Typed, TypeOK, CallStates
<1>3. /\ touched \subseteq touched'
      /\ allowance \cup touched \subseteq allowance' \cup touched'
      /\ IF run[c].enable THEN t \in allowance' \cup touched' ELSE t \in touched'
  BY DEF EnableTradeForToken, With
<1>4. Claims'
  BY <1>1, <1>2, <1>3 DEF Approvals, Claims
<1>5. Cached'
  BY <1>1, <1>3 DEF Approvals, Cached
<1>6. ActiveIsApproved'
  BY <1>1, <1>2, <1>3 DEF Approvals, ActiveIsApproved
<1> QED
  BY <1>4, <1>5, <1>6 DEF Approvals

LEMMA CacheApprovalKeepsApprovals ==
  ASSUME Approvals, Typed', NEW c \in Calls, CacheApproval(c)
  PROVE  Approvals'
<1> DEFINE t == run[c].token
           r == [run[c] EXCEPT !.token = None]
<1>1. /\ run[c].pc = "cache" /\ run[c] \in CallStates /\ r \in CallStates
      /\ TypeOK /\ Enter(c, r, quotes)
      /\ r.kind # "none" /\ (r.kind = "approve" => r.todo = {})
  <2>1. /\ TypeOK /\ run[c] \in CallStates /\ WellFormed(run[c])
        /\ run[c].pc = "cache" /\ Enter(c, r, quotes) /\ r \in CallStates
    BY RecordsTyped DEF CacheApproval, At, Approvals, Typed, TypeOK
  <2>2. r.kind = run[c].kind /\ r.todo = run[c].todo
    BY <2>1 DEF CallStates
  <2> QED
    BY <2>1, <2>2 DEF WellFormed
<1>2. /\ approved' = With(approved, t, run[c].enable)
      /\ writes' = writes \cup {[token |-> t, approved |-> run[c].enable]}
      /\ UNCHANGED <<rows, loader, snapshot, allowance, touched>>
  BY DEF CacheApproval, chain
<1>3. IF run[c].enable THEN t \in allowance \cup touched ELSE t \in touched
  BY <1>1 DEF Approvals, Claims
<1> HIDE DEF r
<1>4. /\ run'[c].pc # "cache"
      /\ \A d \in Calls : d # c => run'[d] = run[d]
      /\ \A s \in (quotes' \cap Listed) \ quotes :
           \/ s \in approved
           \/ run'[c].pc = "approve" /\ run'[c].token = s
  BY <1>1, EnterCall, EnterSymbols DEF TypeOK
<1>5. /\ approved \subseteq approved' \cup touched
      /\ approved' \subseteq approved \cup allowance \cup touched
      /\ run[c].enable => t \in approved'
      /\ ~run[c].enable => t \in touched
  BY <1>2, <1>3 DEF With
<1>6. Claims'
  BY <1>2, <1>3, <1>4, <1>5 DEF Approvals, Claims
<1>7. Cached'
  BY <1>2, <1>5 DEF Approvals, Cached
<1>8. ActiveIsApproved'
  BY <1>2, <1>4, <1>5 DEF Approvals, ActiveIsApproved
<1> QED
  BY <1>6, <1>7, <1>8 DEF Approvals

LEMMA BackgroundKeepsApprovals ==
  ASSUME Approvals, Typed',
         (\E w \in Writes : ApplyWrite(w)) \/ ReadApprovals \/ AddApprovals
           \/ Crash
  PROVE  Approvals'
<1>1. ASSUME NEW w \in Writes, ApplyWrite(w)
      PROVE  Approvals'
  <2>1. /\ w \in writes /\ writes' = writes \ {w}
        /\ rows' \in {rows, With(rows, w.token, w.approved)}
        /\ UNCHANGED <<quotes, approved, loader, snapshot, allowance, touched,
                       run>>
    BY <1>1 DEF ApplyWrite, chain
  <2>2. \A s \in rows' : s \in rows \/ (w.approved /\ s = w.token)
    BY <2>1 DEF With
  <2>3. Claims'
    BY <2>1, <2>2 DEF Approvals, Claims
  <2>4. Cached'
    BY <2>1, <2>2 DEF Approvals, Cached
  <2>5. ActiveIsApproved'
    BY <2>1 DEF Approvals, ActiveIsApproved
  <2> QED
    BY <2>3, <2>4, <2>5 DEF Approvals
<1>2. CASE ReadApprovals
  BY <1>2 DEF ReadApprovals, chain, Approvals, Claims, Cached,
              ActiveIsApproved
<1>3. CASE AddApprovals
  BY <1>3 DEF AddApprovals, chain, Approvals, Claims, Cached,
              ActiveIsApproved
<1>4. CASE Crash
  <2>1. /\ quotes' = {} /\ approved' = {} /\ writes' = {} /\ snapshot' = {}
        /\ loader' = "read" /\ run' = Started
        /\ UNCHANGED <<rows, allowance, touched>>
    BY <1>4 DEF Crash, chain
  <2>2. \A c \in Calls : Started[c].pc # "cache"
    BY DEF Started, NoCall
  <2> QED
    BY <2>1, <2>2 DEF Approvals, Claims, Cached, ActiveIsApproved
<1> QED
  BY <1>1, <1>2, <1>3, <1>4

LEMMA CallsKeepApprovals ==
  ASSUME Approvals, Typed', NEW c \in Calls,
         \/ Handle(c)
         \/ \E list \in SUBSET Symbols : SetSupportedQuoteSymbols(c, list)
         \/ \E s \in Listed, enable \in BOOLEAN : ApproveToken(c, s, enable)
  PROVE  Approvals'
<1>1. Typed /\ TypeOK /\ run[c] \in CallStates
  BY DEF Approvals, Typed, TypeOK
<1>2. ASSUME NEW r \in CallStates, NEW q \in SUBSET quotes, Enter(c, r, q),
             r.kind # "none", r.kind = "approve" => r.todo = {},
             run[c].pc \notin {"approve", "cache"},
             UNCHANGED <<approved, rows, writes, loader, snapshot, allowance,
                         touched>>
      PROVE  Approvals'
  <2>1. /\ run'[c].pc # "cache"
        /\ \A d \in Calls : d # c => run'[d] = run[d]
        /\ \A s \in (quotes' \cap Listed) \ quotes :
             \/ s \in approved
             \/ run'[c].pc = "approve" /\ run'[c].token = s
    BY <1>1, <1>2, EnterCall, EnterSymbols DEF TypeOK
  <2> QED
    BY <1>2, <2>1, CallKeepsApprovals
<1>3. CASE LoadSupportedQuoteSymbols(c)
  <2> DEFINE r == [run[c] EXCEPT !.todo = config]
  <2>1. r \in CallStates /\ r.kind = "load" /\ Enter(c, r, {})
        /\ run[c].pc = "readConfig"
    BY <1>1, <1>3, RecordsTyped DEF LoadSupportedQuoteSymbols, CallStates, At
  <2> HIDE DEF r
  <2> QED
    BY <1>2, <1>3, <2>1 DEF LoadSupportedQuoteSymbols, cache, chain
<1>4. CASE NextSymbol(c)
  <2>1. /\ run[c].kind # "none" /\ (run[c].kind = "approve" => run[c].todo = {})
        /\ run[c].pc = "next"
    BY <1>1, <1>4 DEF NextSymbol, At, Typed, WellFormed
  <2> QED
    BY <1>1, <1>2, <1>4, <2>1 DEF NextSymbol, cache, chain
<1>5. ASSUME NEW list \in SUBSET Symbols, SetSupportedQuoteSymbols(c, list)
      PROVE  Approvals'
  <2> DEFINE r == SetCall(list \cap Listed)
  <2>1. r \in CallStates /\ r.kind = "set" /\ Enter(c, r, {})
        /\ run[c].pc = "idle"
    BY <1>1, <1>5, RecordsTyped DEF SetSupportedQuoteSymbols, At
  <2> HIDE DEF r
  <2> QED
    BY <1>2, <1>5, <2>1 DEF SetSupportedQuoteSymbols, cache, chain
<1>6. CASE SaveConfig(c) \/ DbError(c)
  <2>1. /\ run'[c] = NoCall /\ \A d \in Calls : d # c => run'[d] = run[d]
        /\ run[c].pc \in {"readConfig", "save"} /\ quotes' = quotes
        /\ UNCHANGED <<approved, rows, writes, loader, snapshot, allowance,
                       touched>>
    BY <1>1, <1>6 DEF SaveConfig, DbError, At, Goto, TypeOK, cache, chain
  <2> QED
    BY <2>1, CallKeepsApprovals DEF NoCall
<1>7. ASSUME NEW s \in Listed, NEW enable \in BOOLEAN,
             ApproveToken(c, s, enable)
      PROVE  Approvals'
  <2> DEFINE r == [NoCall EXCEPT !.pc = "approve", !.kind = "approve",
                                 !.token = s, !.enable = enable]
  <2>1. r.pc = "approve"
    BY DEF NoCall
  <2>2. Goto(c, r) /\ run[c].pc = "idle"
        /\ UNCHANGED <<quotes, approved, rows, writes, loader, snapshot,
                       allowance, touched>>
    BY <1>7 DEF ApproveToken, At, cache, chain
  <2> HIDE DEF r
  <2>3. run'[c] = r /\ \A d \in Calls : d # c => run'[d] = run[d]
    BY <1>1, <2>2 DEF Goto, TypeOK
  <2> QED
    BY <2>1, <2>2, <2>3, CallKeepsApprovals
<1> QED
  BY <1>3, <1>4, <1>5, <1>6, <1>7, EnableTradeKeepsApprovals,
     CacheApprovalKeepsApprovals DEF Handle

-----------------------------------------------------------------------------
(* The symbols *)

\* A step that leaves the symbols alone and lets no call begin, end or change
\* its list.
LEMMA SameSetters ==
  ASSUME Lone, UNCHANGED <<quotes, config, unsettled>>,
         \A d \in Calls :
           /\ run'[d].kind = run[d].kind \/ {run'[d].kind, run[d].kind}
                                              \subseteq {"none", "approve"}
           /\ run'[d].list = run[d].list \/ run'[d].kind = "approve"
           /\ run'[d].todo = run[d].todo \/ run'[d].kind = "approve"
           /\ run[d].pc = "readConfig" => run'[d].pc = "readConfig"
  PROVE  Lone'
BY DEF Lone, Setters

\* The loop goes on in the call c.
LEMMA LoopKeepsLone ==
  ASSUME Typed, Lone, NEW c \in Calls, NEW r \in CallStates,
         Enter(c, r, quotes), UNCHANGED <<config, unsettled>>,
         r.kind = run[c].kind, r.list = run[c].list, r.todo = run[c].todo,
         run[c].kind # "none", run[c].pc # "readConfig",
         r.pc # "readConfig"
  PROVE  Lone'
<1>1. TypeOK /\ WellFormed(run[c])
  BY DEF Typed
<1>2. (r.kind = "approve" => r.todo = {}) /\ quotes \in SUBSET Symbols
  BY <1>1 DEF WellFormed, TypeOK
<1>3. \A d \in Calls : d # c => run'[d] = run[d]
  BY <1>1, <1>2, EnterCall
<1>4. /\ \/ /\ run'[c].kind = r.kind /\ run'[c].list = r.list
            /\ run'[c].todo \subseteq r.todo
            /\ quotes' = quotes \cup (r.todo \ run'[c].todo)
         \/ /\ run'[c].kind = "none" /\ r.kind # "set"
            /\ quotes' = quotes \cup r.todo
      /\ run'[c].pc # "readConfig"
  BY <1>1, <1>2, EnterCall, EnterSymbols
<1> SUFFICES ASSUME ~unsettled'
             PROVE  /\ \A d, e \in Setters' : d = e
                    /\ \A d \in Calls :
                         /\ run'[d].kind = "set" =>
                              /\ run'[d].todo \subseteq run'[d].list
                              /\ quotes' = run'[d].list \ run'[d].todo
                         /\ run'[d].kind = "load" /\ run'[d].pc # "readConfig" =>
                              /\ run'[d].todo \subseteq config
                              /\ quotes' = config \ run'[d].todo
                    /\ Setters' = {} => quotes' = config
  BY DEF Lone
<1>5. /\ \A d, e \in Setters : d = e
      /\ \A d \in Calls :
           /\ run[d].kind = "set" =>
                /\ run[d].todo \subseteq run[d].list
                /\ quotes = run[d].list \ run[d].todo
           /\ run[d].kind = "load" /\ run[d].pc # "readConfig" =>
                /\ run[d].todo \subseteq config
                /\ quotes = config \ run[d].todo
      /\ Setters = {} => quotes = config
  BY DEF Lone
<1>6. Setters' \subseteq Setters /\ Setters \ {c} \subseteq Setters'
  BY <1>3, <1>4 DEF Setters
<1>7. CASE r.kind = "approve"
  <2>1. quotes' = quotes /\ run'[c].kind \in {"none", "approve"}
    BY <1>2, <1>4, <1>7
  <2>2. c \notin Setters
    BY <1>7 DEF Setters
  <2> QED
    BY <1>3, <1>5, <1>6, <2>1, <2>2
<1>8. CASE r.kind \in {"load", "set"}
  <2>1. c \in Setters /\ \A d \in Calls : d # c => d \notin Setters
    BY <1>5, <1>8 DEF Setters
  <2>2. \A d \in Calls : d # c => run'[d].kind \notin {"load", "set"}
    BY <1>3, <2>1 DEF Setters
  <2>3. /\ run'[c].kind = "set" =>
             /\ run'[c].todo \subseteq run'[c].list
             /\ quotes' = run'[c].list \ run'[c].todo
        /\ run'[c].kind = "load" =>
             /\ run'[c].todo \subseteq config
             /\ quotes' = config \ run'[c].todo
    BY <1>4, <1>5, <1>8
  <2>4. run'[c].kind = "none" => quotes' = config
    BY <1>4, <1>5, <1>8
  <2>5. Setters' = {} => run'[c].kind = "none"
    BY <1>4, <1>8 DEF Setters
  <2> QED
    BY <1>5, <1>6, <2>2, <2>3, <2>4, <2>5
<1> QED
  BY <1>7, <1>8 DEF CallStates

LEMMA HandleKeepsLone ==
  ASSUME Typed, Lone, NEW c \in Calls, Handle(c)
  PROVE  Lone'
<1>1. TypeOK /\ run[c] \in CallStates /\ WellFormed(run[c])
  BY DEF Typed, TypeOK
<1>2. CASE LoadSupportedQuoteSymbols(c)
  <2> DEFINE r == [run[c] EXCEPT !.todo = config]
  <2>1. /\ r \in CallStates /\ r.kind = "load" /\ Enter(c, r, {})
        /\ r.todo = config /\ run[c].kind = "load" /\ run[c].pc = "readConfig"
        /\ UNCHANGED <<config, unsettled>>
    BY <1>1, <1>2, RecordsTyped DEF LoadSupportedQuoteSymbols, CallStates, At
  <2> HIDE DEF r
  <2>2. /\ \A d \in Calls : d # c => run'[d] = run[d]
        /\ run'[c].pc # "readConfig"
    BY <1>1, <2>1, EnterCall
  <2>3. /\ run'[c].kind = "load" =>
             /\ run'[c].todo \subseteq config
             /\ quotes' = config \ run'[c].todo
        /\ run'[c].kind = "none" => quotes' = config
        /\ run'[c].kind \in {"none", "load"}
    <3>1. \/ /\ run'[c].kind = r.kind /\ run'[c].todo \subseteq r.todo
             /\ quotes' = {} \cup (r.todo \ run'[c].todo)
          \/ run'[c].kind = "none" /\ quotes' = {} \cup r.todo
      BY <1>1, <2>1, EnterSymbols
    <3> QED
      BY <2>1, <3>1
  <2>4. ~unsettled => \A d \in Calls : d # c => run'[d].kind \notin {"load", "set"}
    BY <2>1, <2>2 DEF Lone, Setters
  <2> QED
    BY <2>1, <2>3, <2>4 DEF Lone, Setters
<1>3. CASE NextSymbol(c)
  <2>1. /\ Enter(c, run[c], quotes) /\ run[c].pc = "next"
        /\ UNCHANGED <<config, unsettled>>
    BY <1>3 DEF NextSymbol, At
  <2> QED
    BY <1>1, <2>1, LoopKeepsLone DEF WellFormed
<1>4. CASE CacheApproval(c)
  <2> DEFINE r == [run[c] EXCEPT !.token = None]
  <2>1. /\ Enter(c, r, quotes) /\ run[c].pc = "cache" /\ r \in CallStates
        /\ r.kind = run[c].kind /\ r.list = run[c].list
        /\ r.todo = run[c].todo /\ r.pc = run[c].pc
        /\ UNCHANGED <<config, unsettled>>
    BY <1>1, <1>4, RecordsTyped DEF CacheApproval, At, CallStates
  <2> HIDE DEF r
  <2> QED
    BY <1>1, <2>1, LoopKeepsLone DEF WellFormed
<1>5. CASE SaveConfig(c)
  <2>1. /\ run[c].kind = "set" /\ run[c].todo = {}
        /\ config' = run[c].list /\ UNCHANGED <<quotes, unsettled>>
        /\ run'[c].kind = "none"
        /\ \A d \in Calls : d # c => run'[d] = run[d]
    BY <1>1, <1>5 DEF SaveConfig, At, WellFormed, Goto, NoCall, TypeOK
  <2>2. ~unsettled => \A d \in Calls : d # c => run'[d].kind \notin {"load", "set"}
    BY <2>1 DEF Lone, Setters
  <2>3. ~unsettled => quotes' = config'
    BY <2>1 DEF Lone
  <2> QED
    BY <2>1, <2>2, <2>3 DEF Lone, Setters
<1>6. CASE DbError(c)
  BY <1>6 DEF DbError, Lone
<1>7. CASE EnableTradeForToken(c)
  <2>1. /\ run[c].pc = "approve" /\ UNCHANGED <<quotes, config, unsettled>>
        /\ run' = [run EXCEPT ![c] = [run[c] EXCEPT !.pc = "cache"]]
    BY <1>7 DEF EnableTradeForToken, At, Goto
  <2>2. /\ run'[c].kind = run[c].kind /\ run'[c].list = run[c].list
        /\ run'[c].todo = run[c].todo
        /\ \A d \in Calls : d # c => run'[d] = run[d]
    BY <1>1, <2>1 DEF TypeOK, CallStates
  <2> QED
    BY <2>1, <2>2, SameSetters
<1> QED
  BY <1>2, <1>3, <1>4, <1>5, <1>6, <1>7 DEF Handle

LEMMA MutationKeepsLone ==
  ASSUME Typed, Lone, NEW c \in Calls,
         \/ \E list \in SUBSET Symbols : SetSupportedQuoteSymbols(c, list)
         \/ \E s \in Listed, enable \in BOOLEAN : ApproveToken(c, s, enable)
  PROVE  Lone'
<1>1. TypeOK /\ run[c] \in CallStates /\ WellFormed(run[c])
  BY DEF Typed, TypeOK
<1>2. ASSUME NEW list \in SUBSET Symbols, SetSupportedQuoteSymbols(c, list)
      PROVE  Lone'
  <2> DEFINE r == SetCall(list \cap Listed)
  <2>1. /\ r \in CallStates /\ r.kind = "set" /\ Enter(c, r, {})
        /\ r.todo = r.list /\ r.pc = "idle"
        /\ unsettled' = (Setters # {}) /\ run[c].pc = "idle"
        /\ UNCHANGED config
    BY <1>1, <1>2, RecordsTyped DEF SetSupportedQuoteSymbols, At
  <2> HIDE DEF r
  <2>2. \A d \in Calls : d # c => run'[d] = run[d]
    BY <1>1, <2>1, EnterCall
  <2>3. /\ run'[c].kind = r.kind /\ run'[c].list = r.list
        /\ run'[c].todo \subseteq r.todo
        /\ quotes' = {} \cup (r.todo \ run'[c].todo)
    <3>1. r.kind # "none" /\ {} \in SUBSET Symbols
      BY <2>1
    <3> QED
      BY <1>1, <2>1, <3>1, EnterSymbols
  <2>4. ~unsettled' => \A d \in Calls : d # c => run'[d].kind \notin {"load", "set"}
    BY <2>1, <2>2 DEF Setters
  <2>5. /\ run'[c].kind = "set"
        /\ run'[c].todo \subseteq run'[c].list
        /\ quotes' = run'[c].list \ run'[c].todo
    BY <2>1, <2>3
  <2> QED
    BY <2>4, <2>5 DEF Lone, Setters
<1>3. ASSUME NEW s \in Listed, NEW enable \in BOOLEAN,
             ApproveToken(c, s, enable)
      PROVE  Lone'
  <2>1. /\ run[c].kind = "none" /\ UNCHANGED <<quotes, config, unsettled>>
        /\ run[c].pc = "idle" /\ run'[c].kind = "approve"
        /\ \A d \in Calls : d # c => run'[d] = run[d]
    BY <1>1, <1>3 DEF ApproveToken, At, WellFormed, Goto, NoCall, TypeOK
  <2> QED
    BY <2>1, SameSetters
<1> QED
  BY <1>2, <1>3

LEMMA StartedSetters ==
  /\ \A c \in Calls \ {Boot} : Started[c].kind = "none"
  /\ Started[Boot].kind = "load" /\ Started[Boot].pc = "readConfig"
  /\ Boot \in Calls
BY QuoteAssumption DEF Started, NoCall, QuoteAssumption

-----------------------------------------------------------------------------
(* Theorems *)

QuoteInv == Approvals /\ Lone

LEMMA InitQuoteInv == Init => QuoteInv
<1> SUFFICES ASSUME Init PROVE QuoteInv
  OBVIOUS
<1>1. \A c \in Calls : Started[c].pc # "cache"
  BY DEF Started, NoCall
<1>2. Approvals
  BY <1>1, InitTyped DEF Init, Approvals, Claims, Cached, ActiveIsApproved
<1>3. Lone
  BY StartedSetters DEF Init, Lone, Setters
<1> QED
  BY <1>2, <1>3 DEF QuoteInv

LEMMA NextQuoteInv == QuoteInv /\ [Next]_vars => QuoteInv'
<1> SUFFICES ASSUME QuoteInv, [Next]_vars PROVE QuoteInv'
  OBVIOUS
<1>1. Approvals /\ Lone /\ Typed /\ Typed'
  BY NextTyped DEF QuoteInv, Approvals
<1>2. CASE UNCHANGED vars
  BY <1>1, <1>2 DEF vars, QuoteInv, Approvals, Claims, Cached,
                    ActiveIsApproved, Lone, Setters
<1>3. CASE \E c \in Calls :
             \/ Handle(c)
             \/ \E list \in SUBSET Symbols : SetSupportedQuoteSymbols(c, list)
             \/ \E s \in Listed, enable \in BOOLEAN : ApproveToken(c, s, enable)
  BY <1>1, <1>3, CallsKeepApprovals, HandleKeepsLone, MutationKeepsLone
  DEF QuoteInv
<1>4. CASE (\E w \in Writes : ApplyWrite(w)) \/ ReadApprovals \/ AddApprovals
  <2>1. UNCHANGED <<quotes, config, run, unsettled>>
    BY <1>4 DEF ApplyWrite, ReadApprovals, AddApprovals
  <2>2. Lone'
    BY <1>1, <2>1 DEF Lone, Setters
  <2> QED
    BY <1>1, <1>4, <2>2, BackgroundKeepsApprovals DEF QuoteInv
<1>5. CASE Crash
  <2>1. Lone'
    BY <1>5, StartedSetters DEF Crash, Lone, Setters
  <2> QED
    BY <1>1, <1>5, <2>1, BackgroundKeepsApprovals DEF QuoteInv
<1> QED
  BY <1>2, <1>3, <1>4, <1>5 DEF Next

\* When no call is setting the symbols, the memory and the table agree,
\* unless such calls overlapped or the last one failed.
THEOREM SymbolsSettle == Spec => []QuotesSettled
<1>1. QuoteInv => QuotesSettled
  BY DEF QuoteInv, Lone, QuotesSettled
<1> QED
  BY <1>1, InitQuoteInv, NextQuoteInv, PTL DEF Spec

\* A symbol is traded only when its token is approved or being approved.
THEOREM TradedIsApproved == Spec => []ActiveIsApproved
<1>1. QuoteInv => ActiveIsApproved
  BY DEF QuoteInv, Approvals
<1> QED
  BY <1>1, InitQuoteInv, NextQuoteInv, PTL DEF Spec

\* Neither the map nor the table claims an allowance the chain does not give.
THEOREM NoFalseApproval == Spec => []CachedIsAllowed
<1>1. QuoteInv => CachedIsAllowed
  BY DEF QuoteInv, Approvals, Claims, CachedIsAllowed
<1> QED
  BY <1>1, InitQuoteInv, NextQuoteInv, PTL DEF Spec

\* An approval recorded while loadData is under way is not forgotten.
THEOREM NoApprovalForgotten == Spec => []LoadedIsCached
<1>1. QuoteInv => LoadedIsCached
  BY DEF QuoteInv, Approvals, Cached, LoadedIsCached
<1> QED
  BY <1>1, InitQuoteInv, NextQuoteInv, PTL DEF Spec
=============================================================================
