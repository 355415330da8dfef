-------------------------------- MODULE Auth --------------------------------
(***************************************************************************)
(* The middlewares of src/auth.ts that guard the routes of a gateway, and  *)
(* the life of signed links: minted by whoever has the secret, by a clock  *)
(* of his own, and opened at gateways whose clocks differ from his.        *)
(*                                                                         *)
(* A request is [headers, path, query, sig]: its headers by name, its      *)
(* query as the sequence of the parameters in the URL, and apart from it   *)
(* the parameter `sig`.  Whoever has a link writes the query: parameters   *)
(* in any order, given any number of times, with values that are no text.  *)
(* An HMAC stands for the text it is computed of, and is known only once   *)
(* it has been minted.                                                     *)
(***************************************************************************)
EXTENDS Integers, Sequences, SequencesExt, FiniteSets

CONSTANTS
  Gateways,   \* processes that serve the dashboard
  Guard,      \* [Gateways -> the middlewares of its routes]
  Headers,    \* the headers they read
  Names,      \* the names of parameters, as their ranks in the alphabet
  Ts,         \* the rank of the parameter `ts`
  Values,     \* the values of the others
  Nested,     \* a value that is no text: what a parser makes of name[key]=value
  Paths,      \* the paths links are minted for
  Ttl,        \* ttlSeconds
  Tolerance,  \* the 60 seconds a timestamp may be ahead
  Lag,        \* [Gateways -> how far its clock is behind]
  Leads,      \* how far the clock of a minter may be ahead
  MaxNow,     \* bound: the last second
  MaxLinks,   \* bound: the links minted
  MaxGiven,   \* bound: the parameters given in a URL
  None        \* no header, no signature, not opened

ASSUME AuthAssumption ==
  /\ Names \subseteq Nat /\ Ts \in Names
  /\ {Ttl, Tolerance, MaxNow, MaxLinks, MaxGiven} \subseteq Nat
  /\ Lag \in [Gateways -> Nat]
  /\ Leads \subseteq Int
  /\ None \notin Int \cup Values
  /\ Nested \notin Int \cup Values \cup {None}

\* What is not there is no text that was signed.
ASSUME AbsenceAssumption ==
  None \notin Paths \X Seq(Names \X (Values \cup Int))

VARIABLES
  now,     \* the time, in seconds
  minted,  \* the links, by what was signed
  opened   \* history: [link, the gateway, the time] of the first opening of each

links == <<now, minted, opened>>

-----------------------------------------------------------------------------
(* The middlewares.                                                        *)

\* bearerToken: Authorization carries the scheme and the token.
BearerToken(token, r) ==
  r.headers["authorization"] = [scheme |-> "bearer", credential |-> token]

\* apiKey.
ApiKey(header, value, r) == r.headers[header] = value

\* basicAuth: users is [names -> passwords].
BasicAuth(users, r) ==
  \E u \in DOMAIN users :
    r.headers["authorization"] = [scheme |-> "basic", credential |-> <<u, users[u]>>]

\* Variant: the parameters are signed as they come.
CanonicalUnsorted(path, query) == <<path, query>>

\* The parameters sorted by name.
Sorted(params) ==
  CHOOSE s \in SetToSeqs(params) : \A i, j \in DOMAIN s : i < j => s[i][1] < s[j][1]

\* The value of the parameter n: the first that is given, or None if that is no
\* text (readQueryString).
Parameter(query, n) ==
  LET at == {i \in DOMAIN query : query[i][1] = n}
      first == CHOOSE i \in at : \A j \in at : i <= j
  IN  IF at = {} \/ query[first][2] = Nested THEN None ELSE query[first][2]

\* The parameters that have one, with their values.
Readable(query) ==
  {<<n, Parameter(query, n)>> :
     n \in {m \in {p[1] : p \in Range(query)} : Parameter(query, m) # None}}

\* canonicalQueryString.
Canonical(path, query) == <<path, Sorted(Readable(query))>>

\* Date.now() at g, in seconds.
Clock(g) == now - Lag[g]

\* Variant: a timestamp may be ahead by any time.
TimelyAhead(ts, clock) == clock - ts <= Ttl

Timely(ts, clock) == ts <= clock + Tolerance /\ clock - ts <= Ttl

\* signedQuery.
SignedQuery(clock, r) ==
  LET ts == Parameter(r.query, Ts)
  IN  /\ r.sig # None
      /\ ts # None /\ Timely(ts, clock)
      /\ r.sig = Canonical(r.path, r.query)

\* One middleware calls next().
Admits(mw, g, r) ==
  \/ mw.type = "bearer" /\ BearerToken(mw.token, r)
  \/ mw.type = "apiKey" /\ ApiKey(mw.header, mw.value, r)
  \/ mw.type = "basic" /\ BasicAuth(mw.users, r)
  \/ mw.type = "signed" /\ SignedQuery(Clock(g), r)

\* All of them do; each that does not answers 401.
Passes(g, r) == \A i \in DOMAIN Guard[g] : Admits(Guard[g][i], g, r)

-----------------------------------------------------------------------------
(* Links.                                                                  *)

\* What a link may say beside its timestamp: values of some parameters, as pairs.
Remainders ==
  {others \in SUBSET ((Names \ {Ts}) \X Values) :
     IsFiniteSet(others) /\ \A p, q \in others : p[1] = q[1] => p = q}

\* The sets of parameters of links with this timestamp.
ParameterSets(ts) == {{<<Ts, ts>>} \cup others : others \in Remainders}

\* The queries that are tried with a link of this timestamp.
Queries(ts) ==
  BoundedSeq(((Names \ {Ts}) \X (Values \cup {Nested})) \cup ({Ts} \X {ts, ts + 1, Nested}),
             MaxGiven)

\* The request of a browser that opens a link.
Visit(path, query, sig) ==
  [headers |-> [h \in Headers |-> None], path |-> path, query |-> query, sig |-> sig]

\* What is signed of a link.
Signature(link) == Canonical(link.path, SetToSeq(link.params))

\* A minter, whose clock is ahead by lead, signs a link.
Mint(path, lead) ==
  /\ Cardinality(minted) < MaxLinks
  /\ \E params \in ParameterSets(now + lead) :
       minted' = minted \cup {[path |-> path, params |-> params, ts |-> now + lead]}
  /\ UNCHANGED <<now, opened>>

\* Somebody opens a link, with a query of his own, and is let in.
Open(link, g) ==
  /\ \A o \in opened : o.link # link
  /\ \E query \in Queries(link.ts) : Passes(g, Visit(link.path, query, Signature(link)))
  /\ opened' = opened \cup {[link |-> link, at |-> g, time |-> now]}
  /\ UNCHANGED <<now, minted>>

Tick ==
  /\ now < MaxNow
  /\ now' = now + 1
  /\ UNCHANGED <<minted, opened>>

LinksInit == now = 0 /\ minted = {} /\ opened = {}

LinksNext ==
  \/ \E path \in Paths, lead \in Leads : Mint(path, lead)
  \/ \E link \in minted, g \in Gateways : Open(link, g)
  \/ Tick

-----------------------------------------------------------------------------
(* Properties.                                                             *)

\* The gateways that ask for nothing but a signature.
ByLink ==
  {g \in Gateways : /\ DOMAIN Guard[g] # {}
                    /\ \A i \in DOMAIN Guard[g] : Guard[g][i].type = "signed"}

\* The first values that a query gives, of the parameters where that is text.
FirstGiven(query) ==
  {query[i] : i \in {j \in DOMAIN query :
                       /\ query[j][2] # Nested
                       /\ \A k \in 1..j - 1 : query[k][1] # query[j][1]}}

\* A signature opens the path it was minted for with any query whose first values
\* are the parameters it was minted for, all of them and no others, in whatever
\* order they come ("Sorting ensures the caller and server agree regardless of how
\* query keys were serialized", auth.ts:394), from Tolerance before its timestamp to
\* Ttl after it by the clock of the gateway.  What repeats a name, or is no text, is
\* not signed and keeps nothing from passing: a link for limit=5 opens
\* limit=5&limit=9, of which parseLimit makes its default.
LinksGenuine ==
  \A link \in minted, g \in ByLink, path \in Paths :
    \A query \in Queries(link.ts) :
      Passes(g, Visit(path, query, Signature(link)))
        <=> /\ path = link.path /\ FirstGiven(query) = link.params
            /\ Clock(g) \in link.ts - Tolerance..link.ts + Ttl

\* A link that a signature opened once is dead Ttl and Tolerance later, whatever
\* clock minted it and whatever query it comes with, at every gateway whose clock is
\* not behind that of the one that let it in, and so much later at the others: a link
\* minted in the future waits for its time, and gains no life by it ("rejects
\* requests where the timestamp is in the future (clock skew tolerance: 60s) or
\* older", auth.ts:288-290).
LinksExpire ==
  \A o \in opened, g \in ByLink :
    o.at \in ByLink /\ now > o.time + Ttl + Tolerance + Lag[g] - Lag[o.at] =>
      \A query \in Queries(o.link.ts) :
        ~Passes(g, Visit(o.link.path, query, Signature(o.link)))
=============================================================================
