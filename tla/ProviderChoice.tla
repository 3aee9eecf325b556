---------------------------- MODULE ProviderChoice ----------------------------
(***************************************************************************)
(* Which model a call gets and whose key it spends: providers/resolve.ts,  *)
(* environment.ts, connection-test.ts, secrets/env.ts and the settings of  *)
(* runtime/create.ts.  The settings that are stored lie over the variables *)
(* the process was started with, a key is held for the life of the process,*)
(* and what was built for a choice is kept and shared.  Text and embedding *)
(* models follow the same rules on variables of their own: one of the two. *)
(***************************************************************************)
EXTENDS Naturals, FiniteSets

CONSTANTS
    Providers,          \* the providers; Local is one of them
    Local,
    Default,            \* the provider of a deployment that names none
    NeedsKey,           \* those whose credential is required
    Serves,             \* those that serve this kind of model
    Calls,              \* the calls that are made
    Keys,               \* the keys that occur
    Inherited,          \* the variables the process is started with
    Written,            \* the settings that are written
    Overrides,          \* what a call asks for: [provider, url, key]
    MaxBuilds           \* bound: how many models are built

None == "none"
NoKey == "local"        \* NO_CREDENTIAL

VARIABLES
    stored,             \* the row of the settings
    env,                \* the variables: provider, model, url, and a key for each provider
    cache,              \* what was built, by choice: the build it is
    builds,             \* each build: the choice, its key, and how far it is
    calls               \* each call: how far it is and the build it waits for

providerVars == <<stored, env, cache, builds, calls>>

\* A model's name, and the provider it was configured for.
NoModel == [of |-> None, by |-> None]
Unset == [provider |-> None, model |-> NoModel, url |-> None]
NoCall == [at |-> "idle", build |-> 0, key |-> None, supplied |-> FALSE]

ProviderTypeOK ==
    /\ stored \in Written \cup {Unset}
    /\ env.provider \in Providers \cup {None} /\ env.keys \in [Providers -> Keys \cup {None}]
    /\ \A c \in DOMAIN cache : cache[c] \in DOMAIN builds
    /\ \A b \in DOMAIN builds :
         builds[b].at \in {"going", "built", "failed"} /\ builds[b].key \in Keys \cup {NoKey}
    /\ \A c \in Calls : calls[c].at \in {"idle", "waits", "answered", "refused"}

-----------------------------------------------------------------------------
(* environment.ts *)
Or(a, b) == IF a = None THEN b ELSE a

SlipKeepsTheModel(settings) ==
    [Inherited EXCEPT !.provider = Or(settings.provider, @), !.url = Or(settings.url, @),
                      !.model = IF settings.model = NoModel THEN @ ELSE settings.model]

\* apply: what is stored over what was inherited.  A model that was inherited goes with
\* the provider that was, and not with another one that was chosen without a model.
Applied(settings) ==
    LET before == Or(Inherited.provider, Default)
        leaves == settings.provider \notin {None, before} /\ settings.model = NoModel
    IN [Inherited EXCEPT !.provider = Or(settings.provider, @), !.url = Or(settings.url, @),
                         !.model = IF leaves THEN NoModel
                                   ELSE IF settings.model = NoModel THEN @ ELSE settings.model]

\* The keys are no settings: applying these leaves them.
Apply(settings, keys) == [Applied(settings) EXCEPT !.keys = keys]

\* validateSettings: a provider that serves this kind of model, a server on this machine.
Valid(settings) ==
    /\ settings.provider \in Serves \cup {None}
    /\ settings.url # "remote"

-----------------------------------------------------------------------------
(* resolve.ts *)
ProviderFor(asked, vars) == Or(asked.provider, Or(vars.provider, Default))

SlipGivesItToAll(provider, vars) == vars.model

\* modelOf: the model that is configured is the configured provider's.
ModelOf(provider, vars) == IF Or(vars.provider, Default) = provider THEN vars.model ELSE NoModel

UrlFor(asked, vars) == Or(asked.url, vars.url)

\* describe and describeEmbedding throw: an unknown provider or one that serves none, a
\* server that is not on this machine.
Misconfigured(asked, vars) ==
    LET p == ProviderFor(asked, vars)
    IN p \notin Serves \/ (p = Local /\ UrlFor(asked, vars) = "remote")

Choice(asked, vars) ==
    LET p == ProviderFor(asked, vars)
    IN [provider |-> p, model |-> ModelOf(p, vars), url |-> IF p = Local THEN UrlFor(asked, vars) ELSE None]

\* credentialFor: the supplied key, the variable's, or none where none is required.
KeyFor(provider, supplied, vars) ==
    Or(supplied, Or(vars.keys[provider], IF provider \in NeedsKey THEN None ELSE NoKey))

Last == Cardinality(DOMAIN builds)
Build(choice, key) ==
    /\ Last < MaxBuilds
    /\ builds' = [b \in 1..(Last + 1) |->
                    IF b <= Last THEN builds[b] ELSE [choice |-> choice, key |-> key, at |-> "going"]]

Waits(c, build, supplied) ==
    calls' = [calls EXCEPT ![c] = [NoCall EXCEPT !.at = "waits", !.build = build, !.supplied = supplied # None]]

\* through: a supplied key is spent on this call and forgotten; what is built with the
\* key of the process is built once for a choice.
SlipCachesASuppliedKey(c, asked, vars) ==
    LET choice == Choice(asked, vars)
        key == KeyFor(choice.provider, asked.key, vars)
    IN IF choice \in DOMAIN cache
       THEN Waits(c, cache[choice], asked.key) /\ UNCHANGED <<builds, cache>>
       ELSE /\ key # None /\ Build(choice, key) /\ Waits(c, Last + 1, asked.key)
            /\ cache' = [d \in DOMAIN cache \cup {choice} |-> IF d = choice THEN Last + 1 ELSE cache[d]]

Through(c, asked, vars) ==
    LET choice == Choice(asked, vars)
        key == KeyFor(choice.provider, asked.key, vars)
    IN IF asked.key = None /\ choice \in DOMAIN cache
       THEN Waits(c, cache[choice], None) /\ UNCHANGED <<builds, cache>>
       ELSE /\ key # None /\ Build(choice, key) /\ Waits(c, Last + 1, asked.key)
            /\ cache' = IF asked.key # None THEN cache
                        ELSE [d \in DOMAIN cache \cup {choice} |-> IF d = choice THEN Last + 1 ELSE cache[d]]

-----------------------------------------------------------------------------
ProviderInit ==
    /\ stored = Unset /\ env = Applied(Unset)
    /\ cache = [c \in {} |-> 0] /\ builds = [b \in {} |-> 0]
    /\ calls = [c \in Calls |-> NoCall]

Resolve(c, asked) ==
    /\ calls[c].at = "idle"
    /\ IF Misconfigured(asked, env) \/ KeyFor(ProviderFor(asked, env), asked.key, env) = None
       THEN calls' = [calls EXCEPT ![c].at = "refused"] /\ UNCHANGED <<builds, cache>>
       ELSE Through(c, asked, env)
    /\ UNCHANGED <<stored, env>>

\* test: a draft of the settings and its keys, on a resolver of its own.
Test(c, settings, key) ==
    LET p == ProviderFor([provider |-> None], Applied(settings))
        draft == Apply(settings, [env.keys EXCEPT ![p] = Or(key, @)])
        asked == [provider |-> None, url |-> None, key |-> None]
    IN /\ calls[c].at = "idle" /\ Valid(settings)
       /\ IF Misconfigured(asked, draft) \/ KeyFor(p, None, draft) = None
          THEN calls' = [calls EXCEPT ![c].at = "refused"] /\ UNCHANGED builds
          ELSE Build(Choice(asked, draft), KeyFor(p, None, draft)) /\ Waits(c, Last + 1, key)
       /\ UNCHANGED <<stored, env, cache>>

\* The build settles with whoever waits for it; one that failed does not stick, and
\* leaves alone what was put in its place.
SlipKeepsAFailure(b, how) == cache

Sticks(b, how) ==
    IF how = "built" THEN cache
    ELSE [c \in {d \in DOMAIN cache : cache[d] # b} |-> cache[c]]

BuildEnds(b, how) ==
    /\ b \in DOMAIN builds /\ builds[b].at = "going"
    /\ builds' = [builds EXCEPT ![b].at = how]
    /\ cache' = Sticks(b, how)
    /\ calls' = [c \in Calls |-> IF calls[c].at = "waits" /\ calls[c].build = b
                                 THEN [calls[c] EXCEPT !.at = IF how = "built" THEN "answered" ELSE "refused",
                                                       !.key = builds[b].key]
                                 ELSE calls[c]]
    /\ UNCHANGED <<stored, env>>

\* A caller takes what was built long since at once.
Answered(c) ==
    /\ calls[c].at = "waits" /\ builds[calls[c].build].at = "built"
    /\ calls' = [calls EXCEPT ![c].at = "answered", ![c].key = builds[calls[c].build].key]
    /\ UNCHANGED <<stored, env, cache, builds>>

(* The settings: checked, stored and applied in that order. *)
Write(settings) ==
    /\ Valid(settings)
    /\ stored' = settings /\ env' = Apply(settings, env.keys)
    /\ UNCHANGED <<cache, builds, calls>>

SlipKeepsTheCache == cache

Cleared == [c \in {} |-> 0]

\* secret: what was built is forgotten; a blank key restores the inherited one.
Secret(p, key) ==
    /\ env' = [env EXCEPT !.keys[p] = Or(key, Inherited.keys[p])]
    /\ cache' = Cleared
    /\ UNCHANGED <<stored, builds, calls>>

\* The process ends and starts: what is stored is applied, the keys are gone.
Restart ==
    /\ env' = Applied(stored) /\ cache' = Cleared
    /\ builds' = [b \in {} |-> 0] /\ calls' = [c \in Calls |-> NoCall]
    /\ UNCHANGED stored

ProviderNext ==
    \/ \E c \in Calls, asked \in Overrides : Resolve(c, asked)
    \/ \E c \in Calls, settings \in Written, key \in Keys \cup {None} : Test(c, settings, key)
    \/ \E b \in 1..MaxBuilds, how \in {"built", "failed"} : BuildEnds(b, how)
    \/ \E c \in Calls : Answered(c)
    \/ \E settings \in Written : Write(settings)
    \/ \E p \in Providers, key \in Keys \cup {None} : Secret(p, key)
    \/ Restart

-----------------------------------------------------------------------------
\* What is kept for the next call was built with the key that is in force: no key that
\* was replaced, supplied with one call or tried in a draft is spent on another.
KeptIsOfTheKeyInForce ==
    \A c \in DOMAIN cache : builds[cache[c]].key = KeyFor(c.provider, None, env)

\* What is kept is not a failure.
FailuresDoNotStick == \A c \in DOMAIN cache : builds[cache[c]].at # "failed"

\* A model's name goes to the provider it was configured for and to no other, and only a
\* server on this machine takes the place of the local one.
ModelsStayWithTheirProvider ==
    \A b \in DOMAIN builds :
        LET choice == builds[b].choice
        IN /\ choice.model.of \in {None, choice.provider}
           /\ choice.url # None => choice.provider = Local /\ choice.url # "remote"
=============================================================================
