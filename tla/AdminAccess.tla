----------------------------- MODULE AdminAccess -----------------------------
(***************************************************************************)
(* Operators at their terminals: the commands of src/cli.ts, the routes of *)
(* src/dashboard.ts behind the middlewares of Auth, and listAccessKeys and *)
(* revokeAccessKey of src/server.ts behind the routes, over the store that *)
(* the gateways share.                                                     *)
(*                                                                         *)
(* A command sends requests, and each is handled by the gateway while the  *)
(* command waits for its answer.  Either way over the network it may be    *)
(* lost: the command then fails, and the gateway knows nothing of it.      *)
(*                                                                         *)
(* A key is put and taken in single steps here, and taken for good: what   *)
(* becomes of it meanwhile is in AccessKeys.                               *)
(***************************************************************************)
EXTENDS Auth

CONSTANTS
  Commands,  \* runs of the command line
  Lines,     \* what operators type: [args, token, header]
  Tokens,    \* the tokens of access keys
  Selling,   \* the gateways that sell keys
  Keyed,     \* those that have the routes /keys
  MaxLimit   \* the most calls the route /calls answers with

ASSUME AdminAssumption ==
  /\ Selling \cup Keyed \subseteq Gateways
  /\ MaxLimit \in Nat \ {0}
  /\ Tokens \cap Gateways = {}
  /\ None \notin Gateways \cup Tokens \cup {"200", "401", "404", "500", "lost"}
  /\ (Tokens \cup Gateways \cup {None})
       \cap {"inspect", "stats", "tools", "calls", "keys", "list", "revoke"} = {}

VARIABLES
  store,     \* the tokens with a record
  index,     \* [Gateways -> issuedKeyTokens]
  callLog,   \* [Gateways -> the keys it issued, oldest first]
  cmd,       \* [Commands -> what was typed, or None]
  job,       \* [Commands -> [Routes -> where the gateway is with its request]]
  heard,     \* [Commands -> [Routes -> what the command heard of it]]
  walked,    \* [Commands -> the tokens its listing has looked up]
  shown,     \* [Commands -> the keys it was sent]
  expired,   \* history: the keys an access-key.expired was emitted for
  lasted     \* history: [Commands -> the keys that live, or lived, all the time of it]

keys == <<store, index, callLog, expired>>
adminVars == <<keys, cmd, job, heard, walked, shown, lasted>>
vars == <<links, adminVars>>

-----------------------------------------------------------------------------
(* The command line.                                                       *)

Routes == {"stats", "tools", "calls", "keys", "revoke"}

Verbs == {"inspect", "stats", "tools", "calls", "list", "revoke"}

\* parseArgs: the word after the command, if it is no URL.
Subcommand(args) == IF Len(args) > 1 /\ args[2] \notin Gateways THEN args[2] ELSE None

\* The first argument from the i-th on that is, or is not, a URL.
FirstFrom(args, i, url) ==
  LET found == {j \in i..Len(args) : (args[j] \in Gateways) <=> url}
  IN  IF found = {} THEN None ELSE args[CHOOSE j \in found : \A k \in found : j <= k]

\* resolveUrl.
ResolveUrl(args, sub) == FirstFrom(args, IF sub = None THEN 2 ELSE 3, TRUE)

\* Variant: the token is the first argument after the subcommand.
ResolveTokenFirst(args) == IF Len(args) < 3 THEN None ELSE args[3]

\* resolveToken.
ResolveToken(args) == FirstFrom(args, 3, FALSE)

\* What main makes of a line: its command, gateway and token.
Parse(line) ==
  LET args == line.args
      sub == IF args[1] = "keys" THEN Subcommand(args) ELSE None
  IN  [verb  |-> IF args[1] = "keys" THEN sub ELSE args[1],
       at    |-> ResolveUrl(args, sub),
       token |-> IF sub = "revoke" THEN ResolveToken(args) ELSE None,
       line  |-> line]

\* It is a command, and complete: otherwise main prints the usage, and exits.
Understood(line) ==
  LET c == Parse(line)
  IN  /\ line.args # <<>> /\ line.args[1] \notin {"list", "revoke"}
      /\ c.verb \in Verbs /\ c.at # None
      /\ c.verb = "revoke" => c.token # None

\* What is understood names nothing more than the usage asks for, a token and a URL
\* in either order.
ASSUME LinesAssumption ==
  \A line \in Lines : Understood(line) =>
    \E g \in Gateways, k \in Tokens :
      line.args \in {<<verb, g>> : verb \in {"inspect", "stats", "tools", "calls"}}
                   \cup {<<"keys", "list", g>>, <<"keys", "revoke", k, g>>, <<"keys", "revoke", g, k>>}

ParsedArgs == [verb : Verbs, at : Gateways, token : Tokens \cup {None}, line : Lines]

ASSUME ParsedAssumption == None \notin ParsedArgs

\* buildHeaders: --header is set after --token, and may replace it.
BuildHeaders(line) ==
  [h \in Headers |->
     IF line.header # None /\ line.header.name = h THEN line.header.value
     ELSE IF h = "authorization" /\ line.token # None
          THEN [scheme |-> "bearer", credential |-> line.token]
     ELSE None]

\* The requests a command starts with.
Asks(verb) ==
  CASE verb = "inspect" -> {"stats", "tools", "calls"}
    [] verb = "list" -> {"keys"}
    [] OTHER -> {verb}

Statuses == {"200", "401", "404", "500"}

\* What cmdKeysRevoke prints of a status.
RevokePrints(status) ==
  CASE status = "200" -> "revoked"
    [] status = "404" -> "not found"
    [] status = "401" -> "unauthorized"
    [] OTHER          -> "failed"

\* What cmdKeysList prints.
ListPrints(h) ==
  IF h["keys"] = "200" THEN "keys" ELSE IF h["calls"] = "200" THEN "issuances" ELSE "failed"

\* What a command prints in the end, "pending" until then.  inspect shows each
\* part or why it is missing.
Report(o) ==
  LET verb == cmd[o].verb
      h == heard[o]
      asked == Asks(verb) \cup (IF verb = "list" /\ h["keys"] # "200" THEN {"calls"} ELSE {})
  IN  IF cmd[o] = None \/ \E r \in asked : h[r] = None THEN "pending"
      ELSE IF verb = "revoke" THEN RevokePrints(h["revoke"])
      ELSE IF verb = "list" THEN ListPrints(h)
      ELSE IF verb = "inspect" \/ h[verb] = "200" THEN "shown"
      ELSE "failed"

Listing(o) == cmd[o] # None /\ cmd[o].verb = "list" /\ Report(o) = "pending"

TypeOK ==
  /\ now \in 0..MaxNow
  /\ opened \subseteq [link : minted, at : Gateways, time : 0..now]
  /\ store \cup expired \subseteq Tokens
  /\ index \in [Gateways -> SUBSET Tokens]
  /\ callLog \in [Gateways -> Seq(Tokens)]
  /\ cmd \in [Commands -> ParsedArgs \cup {None}]
  /\ job \in [Commands -> [Routes -> Statuses \cup {"none", "sent", "walking", "found"}]]
  /\ heard \in [Commands -> [Routes -> Statuses \cup {None, "lost"}]]
  /\ {walked, shown, lasted} \subseteq [Commands -> SUBSET Tokens]

AdminInit ==
  /\ store = {}
  /\ index = [g \in Gateways |-> {}]
  /\ callLog = [g \in Gateways |-> <<>>]
  /\ expired = {}
  /\ cmd = [o \in Commands |-> None]
  /\ job = [o \in Commands |-> [r \in Routes |-> "none"]]
  /\ heard = [o \in Commands |-> [r \in Routes |-> None]]
  /\ walked = [o \in Commands |-> {}]
  /\ shown = [o \in Commands |-> {}]
  /\ lasted = [o \in Commands |-> {}]

\* The command o is typed, with no token but of keys that were sold.  A line that
\* is not understood sends nothing.
Type(o, line) ==
  /\ cmd[o] = None
  /\ Understood(line)
  /\ \A k \in Tokens \cap ToSet(line.args) : \E g \in Gateways : k \in ToSet(callLog[g])
  /\ LET c == Parse(line)
     IN  /\ cmd' = [cmd EXCEPT ![o] = c]
         /\ job' = [job EXCEPT ![o] = [r \in Routes |-> IF r \in Asks(c.verb) THEN "sent" ELSE @[r]]]
         /\ lasted' = [lasted EXCEPT ![o] = IF c.verb = "list" THEN store ELSE {}]
  /\ UNCHANGED <<links, keys, heard, walked, shown>>

\* The command hears that a request had status s, or was lost.  A listing that
\* hears anything but the keys asks for the call log instead.
Hears(o, r, s) ==
  /\ heard[o][r] = None
  /\ heard' = [heard EXCEPT ![o][r] = s]
  /\ job' = IF cmd[o].verb = "list" /\ r = "keys" /\ s # "200"
            THEN [job EXCEPT ![o]["calls"] = "sent"] ELSE job
  /\ UNCHANGED <<links, keys, cmd, walked, shown, lasted>>

Response(o, r) == job[o][r] \in Statuses /\ Hears(o, r, job[o][r])

\* The request or its answer is lost (fetch rejects).
Lost(o, r) == job[o][r] # "none" /\ Hears(o, r, "lost")

-----------------------------------------------------------------------------
(* The routes.                                                             *)

\* The gateway goes on with the request r of the command o.
Proceeds(o, r, to) ==
  /\ job' = [job EXCEPT ![o][r] = to]
  /\ UNCHANGED <<links, callLog, cmd, heard>>

\* The request of the command o for the route r, on its way or not.
Sent(o, r) == job[o][r] = "sent"

Has(g, r) == r \notin {"keys", "revoke"} \/ g \in Keyed

Admitted(o, r) ==
  /\ Sent(o, r)
  /\ Has(cmd[o].at, r)
  /\ Passes(cmd[o].at, [headers |-> BuildHeaders(cmd[o].line), path |-> r,
                        query |-> <<>>, sig |-> None])

\* Express knows no such route.
NoRoute(o, r) ==
  /\ Sent(o, r) /\ ~Has(cmd[o].at, r)
  /\ Proceeds(o, r, "404")
  /\ UNCHANGED <<store, index, expired, walked, shown, lasted>>

\* A middleware answers.
Denied(o, r) ==
  /\ Sent(o, r) /\ Has(cmd[o].at, r) /\ ~Admitted(o, r)
  /\ Proceeds(o, r, "401")
  /\ UNCHANGED <<store, index, expired, walked, shown, lasted>>

\* The routes /stats, /tools and /calls answer at once.
Answers(o, r) ==
  /\ r \in {"stats", "tools", "calls"} /\ Admitted(o, r)
  /\ Proceeds(o, r, "200")
  /\ LET log == callLog[cmd[o].at]
     IN  shown' = IF r # "calls" THEN shown
                  ELSE [shown EXCEPT ![o] =
                          {log[i] : i \in {j \in DOMAIN log : j + MaxLimit > Len(log)}}]
  /\ UNCHANGED <<store, index, expired, walked, lasted>>

\* listAccessKeys begins to walk the index.
ListStarts(o) ==
  /\ Admitted(o, "keys")
  /\ Proceeds(o, "keys", "walking")
  /\ UNCHANGED <<store, index, expired, walked, shown, lasted>>

\* It looks up a token it has not met, and drops one without a record.
ListLooksUp(o, k) ==
  /\ job[o]["keys"] = "walking"
  /\ k \in index[cmd[o].at] \ walked[o]
  /\ walked' = [walked EXCEPT ![o] = @ \cup {k}]
  /\ IF k \in store
       THEN shown' = [shown EXCEPT ![o] = @ \cup {k}] /\ UNCHANGED index
       ELSE index' = [index EXCEPT ![cmd[o].at] = @ \ {k}] /\ UNCHANGED shown
  /\ UNCHANGED <<links, store, callLog, expired, cmd, job, heard, lasted>>

\* Variant: a lookup that fails is taken for one that finds nothing.
ListThrowsSilently(o) ==
  /\ job[o]["keys"] = "walking"
  /\ \E k \in index[cmd[o].at] \ walked[o] :
       /\ walked' = [walked EXCEPT ![o] = @ \cup {k}]
       /\ index' = [index EXCEPT ![cmd[o].at] = @ \ {k}]
  /\ UNCHANGED <<links, store, callLog, expired, cmd, job, heard, shown, lasted>>

\* A lookup is answered with an error: the route answers 500.
ListThrows(o) ==
  /\ job[o]["keys"] = "walking"
  /\ index[cmd[o].at] \ walked[o] # {}
  /\ Proceeds(o, "keys", "500")
  /\ walked' = [walked EXCEPT ![o] = {}]
  /\ shown' = [shown EXCEPT ![o] = {}]
  /\ UNCHANGED <<store, index, expired, lasted>>

ListEnds(o) ==
  /\ job[o]["keys"] = "walking"
  /\ index[cmd[o].at] \subseteq walked[o]
  /\ Proceeds(o, "keys", "200")
  /\ walked' = [walked EXCEPT ![o] = {}]
  /\ UNCHANGED <<store, index, expired, shown, lasted>>

\* A record goes, for good.
Gone(k) ==
  /\ store' = store \ {k}
  /\ lasted' = [o \in Commands |-> IF Listing(o) THEN lasted[o] \ {k} ELSE lasted[o]]

\* revokeAccessKey up to its second await: the token leaves the index, and if it
\* has no record that is all.
RevokeLooksUp(o) ==
  /\ Admitted(o, "revoke")
  /\ LET c == cmd[o]
     IN  /\ Proceeds(o, "revoke", IF c.token \in store THEN "found" ELSE "404")
         /\ index' = [index EXCEPT ![c.at] = @ \ {c.token}]
  /\ UNCHANGED <<store, expired, walked, shown, lasted>>

\* The delete, and the event.
RevokeDeletes(o) ==
  /\ job[o]["revoke"] = "found"
  /\ Proceeds(o, "revoke", "200")
  /\ Gone(cmd[o].token)
  /\ expired' = expired \cup {cmd[o].token}
  /\ UNCHANGED <<index, walked, shown>>

\* Variant: a delete that fails is not noticed.
RevokeThrowsSilently(o) ==
  /\ job[o]["revoke"] = "found"
  /\ Proceeds(o, "revoke", "200")
  /\ UNCHANGED <<store, index, expired, walked, shown, lasted>>

\* The lookup or the delete is answered with an error, the delete perhaps after
\* the store has done it: the route answers 500.
RevokeThrows(o) ==
  /\ Admitted(o, "revoke") \/ job[o]["revoke"] = "found"
  /\ Proceeds(o, "revoke", "500")
  /\ \/ UNCHANGED <<store, lasted>>
     \/ job[o]["revoke"] = "found" /\ Gone(cmd[o].token)
  /\ UNCHANGED <<index, expired, walked, shown>>

-----------------------------------------------------------------------------
(* The keys.                                                               *)

\* A key is sold at g: stored, indexed and logged.
Issue(g, k) ==
  /\ \A h \in Gateways : k \notin ToSet(callLog[h])
  /\ store' = store \cup {k}
  /\ index' = [index EXCEPT ![g] = @ \cup {k}]
  /\ callLog' = [callLog EXCEPT ![g] = Append(@, k)]
  /\ UNCHANGED <<links, expired, cmd, job, heard, walked, shown, lasted>>

\* The TTL of a record passes.
Sweep(k) ==
  /\ k \in store
  /\ Gone(k)
  /\ UNCHANGED <<links, index, callLog, expired, cmd, job, heard, walked, shown>>

-----------------------------------------------------------------------------

Init == LinksInit /\ AdminInit

AdminNext ==
  \/ \E o \in Commands :
       \/ \E line \in Lines : Type(o, line)
       \/ \E r \in Routes : Response(o, r) \/ Lost(o, r) \/ NoRoute(o, r) \/ Denied(o, r)
                            \/ Answers(o, r)
       \/ ListStarts(o) \/ (\E k \in Tokens : ListLooksUp(o, k)) \/ ListThrows(o) \/ ListEnds(o)
       \/ RevokeLooksUp(o) \/ RevokeDeletes(o) \/ RevokeThrows(o)
  \/ \E k \in Tokens : Sweep(k) \/ \E g \in Selling : Issue(g, k)

Next ==
  \/ AdminNext
  \/ LinksNext /\ UNCHANGED adminVars

Spec == Init /\ [][Next]_vars

-----------------------------------------------------------------------------
(* Properties.                                                             *)

\* What `keys revoke` prints is so, whatever else is revoked, swept or lost
\* meanwhile and in whatever order the token and the URL are typed: a key that is
\* reported revoked, or was announced as expired, is gone, and so is one that a
\* gateway with the route does not find ("already revoked, expired, or never
\* issued", cli.ts:317).
RevokeReportsTrue ==
  /\ expired \cap store = {}
  /\ \A o \in Commands : cmd[o] # None /\ cmd[o].verb = "revoke" =>
       LET typed == Tokens \cap ToSet(cmd[o].line.args)
       IN  \/ typed \cap store = {}
           \/ Report(o) \in {"pending", "unauthorized", "failed"}
           \/ Report(o) = "not found" /\ cmd[o].at \notin Keyed

\* The tokens that a revocation at g, now in one of the states, took from the index.
Taken(g, states) ==
  {k \in Tokens : \E p \in Commands : /\ cmd[p] # None /\ cmd[p].token = k /\ cmd[p].at = g
                                      /\ job[p]["revoke"] \in states}

\* A listing misses no key that the gateway has sold and that lived all the time
\* of it, but for one that a revocation there took from the index and had not
\* deleted yet, or could not ("Each token is looked up live", server.ts:1096); and
\* no other living key is missing from the index.
ListsAreHonest ==
  /\ \A g \in Gateways :
       ToSet(callLog[g]) \cap store \subseteq index[g] \cup Taken(g, {"found", "500"})
  /\ \A o \in Commands : cmd[o] # None /\ Report(o) = "keys" =>
       lasted[o] \cap ToSet(callLog[cmd[o].at])
         \subseteq shown[o] \cup Taken(cmd[o].at, {"found", "500", "200"})
=============================================================================
