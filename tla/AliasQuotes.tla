----------------------------- MODULE AliasQuotes -----------------------------
\* Quotes of the TypeScript SDK (satspath/sdk): an alias is looked up along the
\* resolver chain (local registry, BIP-353, HTTPS well-known, Nostr NIP-05), the
\* profile found is checked and one of its rails is selected. Each network
\* resolver caches what it found. The local registry and BIP-353 give any answer
\* they can; the domain's document and the key it names are followed over time.
\* One alias and one quote at a time, as the caches are keyed by alias. Time is
\* counted in ticks, which pass during requests too.
EXTENDS Naturals, FiniteSets

CONSTANTS RailsOf,    \* the rails of each version of the profile
          ExpiryOf,   \* the tick at which each version expires
          KeyOf,      \* the key that signs each version: the first one it signed
          CacheTtl,   \* cacheTtl of the resolvers, in ticks
          Longest,    \* the longest request: the code aborts one without headers
                      \* after 10 s, a relay after 15 s, but waits for a body
                      \* for as long as the browser does
          LastTick    \* bound: ticks

Versions == DOMAIN RailsOf

ASSUME QuoteAssumption ==
  /\ \A v \in Versions : v \in Nat \ {0} /\ RailsOf[v] \subseteq {"Lightning", "Onchain", "Ark"}
  /\ ExpiryOf \in [Versions -> Nat] /\ CacheTtl \in Nat \ {0} /\ LastTick \in Nat
  /\ KeyOf \in [Versions -> Versions] /\ Longest \in Nat

VARIABLES
  clock,
  served,           \* the version the domain publishes, at each source
  replacedAt,       \* when it stopped showing a document or a key (history)
  profileCache,     \* of the resolvers that find signed documents
  nip05Cache,
  quoteCall         \* the quote under way, or answered; "at" is when its
                    \* request was sent, or its profile was found

quoteVars == <<clock, served, replacedAt, profileCache, nip05Cache, quoteCall>>

Documented == {"https", "nostr"}
NotCached == [version |-> 0, expires |-> 0]
NoQuote == [step |-> "idle", via |-> "none", version |-> 0,
            at |-> 0, rail |-> "none"]
Answers == {"ok", "not_registered", "invalid_signature", "no_route", "thrown"}
\* A request is out, or its answer is being read.
Requests == {"https sent", "https read", "nip05 sent", "nip05 read", "relays"}
\* A synthetic BIP-353 profile has no version of its own.
Synthetic == 0

QuoteTypeOK ==
  /\ clock \in 0..LastTick
  /\ served \in [Documented -> Versions \cup {0}]
  /\ replacedAt \in [Documented -> [Versions -> 0..LastTick]]
  /\ profileCache \in [Documented -> [version : Versions \cup {0}, expires : 0..(LastTick + CacheTtl)]]
  /\ nip05Cache \in [version : Versions \cup {0}, expires : 0..(LastTick + CacheTtl)]
  /\ quoteCall \in [step : {"idle", "registry", "bip353", "https", "nostr", "check", "route"}
                           \cup Requests \cup Answers,
       at : 0..LastTick,
       via : {"none", "registry", "bip353"} \cup Documented, version : Versions \cup {0},
       rail : {"none", "Lightning", "Onchain", "Ark"}]

QuoteInit ==
  /\ clock = 0
  /\ served = [s \in Documented |-> 0]
  /\ replacedAt = [s \in Documented |-> [v \in Versions |-> 0]]
  /\ profileCache = [s \in Documented |-> NotCached]
  /\ nip05Cache = NotCached
  /\ quoteCall = NoQuote

-----------------------------------------------------------------------------
\* Fault: an entry stands as long as it is there.
IsThere(entry) == entry.version # 0

\* Date.now() < cached.expires
IsFresh(entry) == clock < entry.expires
Keep(version) == [version |-> version, expires |-> clock + CacheTtl]

Answered(step, rail) == quoteCall' = [NoQuote EXCEPT !.step = step, !.rail = rail]

\* The chain goes on to the next resolver, whatever the error; once it is
\* exhausted, quoteWithResolver answers the last one.
After(step) == CASE step = "registry" -> "bip353" [] step = "bip353" -> "https"
                 [] step \in {"https", "https sent", "https read"} -> "nostr"
                 [] OTHER -> "exhausted"

TryNext(error) ==
  IF After(quoteCall.step) # "exhausted" THEN quoteCall' = [NoQuote EXCEPT !.step = After(quoteCall.step)]
  ELSE Answered(IF error = "not found" THEN "not_registered" ELSE "thrown", "none")

Asks(step, version) ==
  quoteCall' = [quoteCall EXCEPT !.step = step, !.version = version, !.at = clock]

Resolved(via, version) ==
  quoteCall' = [quoteCall EXCEPT !.step = "check", !.via = via, !.version = version, !.at = clock]

-----------------------------------------------------------------------------
\* quote(): a new question.
AskQuote ==
  /\ quoteCall.step \in Answers \cup {"idle"}
  /\ quoteCall' = [NoQuote EXCEPT !.step = "registry"]
  /\ UNCHANGED <<clock, served, replacedAt, profileCache, nip05Cache>>

\* The local registry checks nothing: it holds what the application last put there.
ResolveRegistry ==
  /\ quoteCall.step = "registry"
  /\ (\E v \in Versions : Resolved("registry", v)) \/ TryNext("not found")
  /\ UNCHANGED <<clock, served, replacedAt, profileCache, nip05Cache>>

\* A record with a payment URI, from the cache or a DoH provider, makes a profile
\* without a signature; when no provider answers, "not found" is thrown.
ResolveBip353 ==
  /\ quoteCall.step = "bip353"
  /\ \/ Resolved("bip353", Synthetic)
     \/ \E error \in {"not found", "other"} : TryNext(error)
  /\ UNCHANGED <<clock, served, replacedAt, profileCache, nip05Cache>>

\* What the domain itself shows of a version: the document, or the key NIP-05 names.
Shown(source, v) == IF source = "https" \/ v = 0 THEN v ELSE KeyOf[v]

\* From the cache, or a request for the document goes out.
ResolveHttps ==
  /\ quoteCall.step = "https"
  /\ IF IsFresh(profileCache["https"]) THEN Resolved("https", profileCache["https"].version)
     ELSE Asks("https sent", 0)
  /\ UNCHANGED <<clock, served, replacedAt, profileCache, nip05Cache>>

\* The profile from the cache, or the key from its own, or a request for the key.
ResolveNostr ==
  /\ quoteCall.step = "nostr"
  /\ IF IsFresh(profileCache["nostr"]) THEN Resolved("nostr", profileCache["nostr"].version)
     ELSE IF IsFresh(nip05Cache) THEN Asks("relays", nip05Cache.version)
     ELSE Asks("nip05 sent", 0)
  /\ UNCHANGED <<clock, served, replacedAt, profileCache, nip05Cache>>

\* The domain answers a request with what it shows at that moment; or there is
\* nothing, the request fails or it is aborted.
DomainAnswers ==
  /\ \E source \in Documented :
       LET sent == IF source = "https" THEN "https sent" ELSE "nip05 sent" IN
       /\ quoteCall.step = sent
       /\ \/ /\ served[source] # 0
             /\ quoteCall' = [quoteCall EXCEPT !.version = Shown(source, served[source]),
                                !.step = IF source = "https" THEN "https read" ELSE "nip05 read"]
          \/ \E error \in {"other"} \cup (IF served[source] = 0 THEN {"not found"} ELSE {}) : TryNext(error)
  /\ UNCHANGED <<clock, served, replacedAt, profileCache, nip05Cache>>

\* Its body is read and checked, and lives in the cache from then on: an expired
\* document is an error of its resolver.
StoreHttps ==
  /\ quoteCall.step = "https read"
  /\ \/ /\ clock <= ExpiryOf[quoteCall.version]
        /\ Resolved("https", quoteCall.version)
        /\ profileCache' = [profileCache EXCEPT !["https"] = Keep(quoteCall.version)]
     \/ TryNext("other") /\ UNCHANGED profileCache
  /\ UNCHANGED <<clock, served, replacedAt, nip05Cache>>

\* The key is kept and the relays are asked for its event.
FetchNip05 ==
  /\ quoteCall.step = "nip05 read"
  /\ \/ Asks("relays", quoteCall.version) /\ nip05Cache' = Keep(quoteCall.version)
     \/ TryNext("other") /\ UNCHANGED nip05Cache
  /\ UNCHANGED <<clock, served, replacedAt, profileCache>>

\* The first relay that answers wins, with any event of the key that was ever
\* published; or none answers, or one does with an event that fails its checks.
QueryRelays ==
  /\ quoteCall.step = "relays"
  /\ \/ \E v \in Versions :
          /\ KeyOf[v] = quoteCall.version /\ v <= served["nostr"] /\ clock <= ExpiryOf[v]
          /\ Resolved("nostr", v)
          /\ profileCache' = [profileCache EXCEPT !["nostr"] = Keep(v)]
     \/ /\ \E error \in {"not found", "other"} : TryNext(error)
        /\ UNCHANGED profileCache
  /\ UNCHANGED <<clock, served, replacedAt, nip05Cache>>

\* The signature, by its length, and the expiry, which a cached profile or one of
\* the registry may have passed.
CheckProfile ==
  /\ quoteCall.step = "check"
  /\ IF quoteCall.via = "bip353" THEN Answered("invalid_signature", "none")
     ELSE IF clock > ExpiryOf[quoteCall.version] THEN Answered("no_route", "none")
     ELSE quoteCall' = [quoteCall EXCEPT !.step = "route"]
  /\ UNCHANGED <<clock, served, replacedAt, profileCache, nip05Cache>>

\* selectRoute: Lightning for an amount below its threshold, then cheap on-chain, Ark, and
\* on-chain at any fee.
SelectRoute(rails, small, cheap) ==
  IF "Lightning" \in rails /\ small THEN "Lightning"
  ELSE IF "Onchain" \in rails /\ cheap THEN "Onchain"
  ELSE IF "Ark" \in rails THEN "Ark"
  ELSE IF "Onchain" \in rails THEN "Onchain" ELSE "none"

\* selectRouteLive: with live fees, or with the fallback, which are cheap.
AnswerQuote ==
  /\ quoteCall.step = "route"
  /\ \E small, cheap \in BOOLEAN :
       LET rail == SelectRoute(RailsOf[quoteCall.version], small, cheap) IN
       Answered(IF rail = "none" THEN "no_route" ELSE "ok", rail)
  /\ UNCHANGED <<clock, served, replacedAt, profileCache, nip05Cache>>

\* The domain publishes its first version or replaces one by the next (bound: in
\* one of the two ways).
Serve(source) ==
  LET old == served[source] IN
  /\ \A other \in Documented \ {source} : served[other] = 0
  /\ old + 1 \in Versions
  /\ served' = [served EXCEPT ![source] = old + 1]
  /\ replacedAt' = IF old = 0 \/ Shown(source, old + 1) = Shown(source, old) THEN replacedAt
                   ELSE [replacedAt EXCEPT ![source][Shown(source, old)] = clock]
  /\ UNCHANGED <<clock, profileCache, nip05Cache, quoteCall>>

\* Time passes, during requests too, which take no more than Longest.
Tick ==
  /\ clock < LastTick
  /\ quoteCall.step \in Requests => clock < quoteCall.at + Longest
  /\ clock' = clock + 1
  /\ UNCHANGED <<served, replacedAt, profileCache, nip05Cache, quoteCall>>

QuoteNext ==
  \/ AskQuote \/ ResolveRegistry \/ ResolveBip353 \/ ResolveHttps \/ ResolveNostr \/ DomainAnswers
  \/ StoreHttps \/ FetchNip05 \/ QueryRelays \/ CheckProfile \/ AnswerQuote \/ Tick
  \/ \E source \in Documented : Serve(source)

QuoteSpec == QuoteInit /\ [][QuoteNext]_quoteVars

-----------------------------------------------------------------------------
\* How long what the domain replaced may still be found: for the life of a cache
\* entry and the request that brought it. A Nostr profile is brought by two
\* requests and kept twice, the key and then the event signed with it.
Lag(source) == IF source = "https" THEN Longest + CacheTtl ELSE 2 * (Longest + CacheTtl)

\* A profile is not routed for longer than that after the domain replaced its
\* document, or the key that signed it.
QuotedIsRecent ==
  quoteCall.step \in {"check", "route"} /\ quoteCall.via \in Documented =>
    LET shown == Shown(quoteCall.via, quoteCall.version) IN
    \/ shown = Shown(quoteCall.via, served[quoteCall.via])
    \/ quoteCall.at < replacedAt[quoteCall.via][shown] + Lag(quoteCall.via)
=============================================================================
