-------------------------------- MODULE Hooks --------------------------------
(***************************************************************************)
(* The plugins of a session and what they are told: loadHookPlugins        *)
(* (src/src/hooks/loader.ts), HookManager (hooks/manager.ts), and the      *)
(* session that loads, registers and tells them (src/src/agent.ts).        *)
(*                                                                         *)
(* A dispatch of an event awaits the handlers one after the other, and     *)
(* goes through the very list that registrations append to.  Several are   *)
(* under way at once: those of parallel tool calls, and those that nobody  *)
(* awaits.  A plugin keeps the api its setup was given and may add         *)
(* handlers with it whenever it runs.                                      *)
(* stage:   load       import of the plugin at `position`                  *)
(*          register   registerPlugin of the loaded ones, in order         *)
(*          setup      registerPlugin awaits plugin.setup                  *)
(*          start      the session is about to tell of its start           *)
(*          live       createSession has returned                          *)
(*          failed     createSession has thrown                            *)
(***************************************************************************)
EXTENDS Integers, Sequences, FiniteSets

CONSTANTS
  Paths,         \* hooks.plugin_paths, plugins by name, in order
  Hooked,        \* Hooked[p]: the handlers of p's `hooks` object, as a sequence of events
  Events,        \* the events that happen, of those in Fields
  Uncaught,      \* the events whose dispatch the session neither awaits nor catches
  Wanted,        \* bound: what plugins may request, a set of functions
  MaxEmits,      \* bound: events of a behaviour
  MaxHandlers    \* bound: handlers of an event

VARIABLES
  strict, allowed,  \* hooks.strict and hooks.allow_capabilities
  wants,            \* wants[p]: plugin.capabilities
  stage, position,  \* a position in Paths, then in `loaded`
  loaded,           \* the plugins that could be loaded
  granted,          \* granted[p], {} until p is registered
  apis,             \* the plugins whose setup has the api
  handlers,         \* handlers[e]: who is told of e, and with what capabilities
  emits,            \* the dispatches that were begun
  alive,            \* the process runs
  seen,             \* history: data that plugins have got, as <<plugin, field>>
  unset             \* history: the setup of a plugin has thrown

hvars == <<strict, allowed, wants, stage, position, loaded, granted, apis, handlers, emits,
           alive, seen, unset>>
config == <<strict, allowed, wants>>

Plugins == DOMAIN Hooked

\* HookEventMap: the fields of an event in which the user, the model or a tool speaks.
Fields ==
  [session_start |-> {}, model_changed |-> {}, turn_start |-> {}, turn_end |-> {},
   ask_start |-> {"instruction"}, ask_end |-> {"text"}, ask_error |-> {"error"},
   tool_call |-> {"args"}, tool_stream |-> {"chunk"},
   tool_result |-> {"result", "summary", "execOutput", "searchMatches", "diff"}]

\* redactPayload: the fields it blanks, with the capability that spares them.
Redacted ==
  [instruction |-> "read_prompts", text |-> "read_responses", args |-> "read_tool_args",
   chunk |-> "read_tool_results", result |-> "read_tool_results"]

\* The capabilities that matter for the events that happen.
Capabilities == {Redacted[f] : f \in DOMAIN Redacted \cap UNION {Fields[e] : e \in Events}}

\* The constants are what they are said to be.
ASSUME HooksAssumption ==
  /\ Events \subseteq DOMAIN Fields
  /\ Paths \in Seq(Plugins)
  /\ \A p \in Plugins : Hooked[p] \in Seq(Events)

-----------------------------------------------------------------------------
(* Loading and registration *)

\* import() and pluginFromModule.
Load ==
  /\ alive /\ stage = "load" /\ position <= Len(Paths)
  /\ loaded' = Append(loaded, Paths[position]) /\ position' = position + 1
  /\ UNCHANGED <<config, stage, granted, apis, handlers, emits, alive, seen, unset>>

\* The file is not there, throws, or exports no plugin.
LoadFails ==
  /\ alive /\ stage = "load" /\ position <= Len(Paths)
  /\ IF strict THEN stage' = "failed" /\ UNCHANGED position
               ELSE position' = position + 1 /\ UNCHANGED stage
  /\ UNCHANGED <<config, loaded, granted, apis, handlers, emits, alive, seen, unset>>

AllLoaded ==
  /\ alive /\ stage = "load" /\ position > Len(Paths)
  /\ stage' = "register" /\ position' = 1
  /\ UNCHANGED <<config, loaded, granted, apis, handlers, emits, alive, seen, unset>>

\* clampCapabilities.
Clamped(capabilities) == IF capabilities = {} THEN {"observe"} ELSE capabilities

Granted(requested) ==
  IF requested \cap allowed = {} THEN {"observe"} ELSE requested \cap allowed

Denied(requested) == requested \ allowed

\* on(), for all events of a sequence in turn.
WithHandlers(p, events, capabilities) ==
  [e \in Events |->
     handlers[e] \o [n \in 1..Cardinality({i \in DOMAIN events : events[i] = e}) |->
                       [of |-> p, capabilities |-> capabilities]]]

\* registerPlugin up to its await; a plugin may have no setup.
Register ==
  /\ alive /\ stage = "register" /\ position <= Len(loaded)
  /\ LET p == loaded[position]
         requested == Clamped(wants[p])
     IN
     IF strict /\ Denied(requested) # {}
     THEN stage' = "failed" /\ UNCHANGED <<position, granted, apis, handlers>>
     ELSE /\ granted' = [granted EXCEPT ![p] = Granted(requested)]
          /\ handlers' = WithHandlers(p, Hooked[p], Granted(requested))
          /\ \/ stage' = "setup" /\ apis' = apis \cup {p} /\ UNCHANGED position
             \/ position' = position + 1 /\ UNCHANGED <<stage, apis>>
  /\ UNCHANGED <<config, loaded, emits, alive, seen, unset>>

SetupEnds ==
  /\ alive /\ stage = "setup"
  /\ stage' = "register" /\ position' = position + 1
  /\ UNCHANGED <<config, loaded, granted, apis, handlers, emits, alive, seen, unset>>

\* Nothing catches it, strict or not.
SetupThrows ==
  /\ alive /\ stage = "setup"
  /\ stage' = "failed" /\ unset' = TRUE
  /\ UNCHANGED <<config, position, loaded, granted, apis, handlers, emits, alive, seen>>

\* Mutant: handlers added by setup get what was requested.
AddsUnclamped(p, e) ==
  /\ alive /\ stage # "failed" /\ p \in apis /\ Len(handlers[e]) < MaxHandlers
  /\ handlers' = WithHandlers(p, <<e>>, Clamped(wants[p]))
  /\ UNCHANGED <<config, stage, position, loaded, granted, apis, emits, alive, seen, unset>>

\* api.on, during setup or at any time after it.
Adds(p, e) ==
  /\ alive /\ stage # "failed" /\ p \in apis /\ Len(handlers[e]) < MaxHandlers
  /\ handlers' = WithHandlers(p, <<e>>, granted[p])
  /\ UNCHANGED <<config, stage, position, loaded, granted, apis, emits, alive, seen, unset>>

AllRegistered ==
  /\ alive /\ stage = "register" /\ position > Len(loaded)
  /\ stage' = "start"
  /\ UNCHANGED <<config, position, loaded, granted, apis, handlers, emits, alive, seen, unset>>

-----------------------------------------------------------------------------
(* Dispatch *)

\* What the handler h of event e gets of its data: all that redactPayload does not blank.
Shown(h, e) ==
  {<<h.of, f>> : f \in {g \in Fields[e] : g \in DOMAIN Redacted => Redacted[g] \in h.capabilities}}

Underway(i) == alive /\ i \in DOMAIN emits /\ emits[i].state = "running"

\* emit() up to the first handler. The start is told before createSession returns.
Emit(e) ==
  /\ alive /\ Len(emits) < MaxEmits
  /\ IF e = "session_start" THEN stage = "start" /\ (\A i \in DOMAIN emits : ~Underway(i))
                            ELSE stage = "live"
  /\ IF handlers[e] = <<>>
     THEN /\ stage' = "live"
          /\ UNCHANGED <<emits, seen>>
     ELSE /\ emits' = Append(emits, [event |-> e, at |-> 1, began |-> Len(handlers[e]),
                                     state |-> "running"])
          /\ seen' = seen \cup Shown(handlers[e][1], e)
          /\ UNCHANGED stage
  /\ UNCHANGED <<config, position, loaded, granted, apis, handlers, alive, unset>>

\* The loop of emit() goes on to its next handler, or ends.
GoesOn(i) ==
  LET e == emits[i].event
      n == emits[i].at + 1
  IN
  IF n <= Len(handlers[e])
  THEN /\ emits' = [emits EXCEPT ![i].at = n]
       /\ seen' = seen \cup Shown(handlers[e][n], e)
       /\ UNCHANGED stage
  ELSE /\ emits' = [emits EXCEPT ![i].state = "done"]
       /\ stage' = IF e = "session_start" THEN "live" ELSE stage
       /\ UNCHANGED seen

\* The handler that dispatch i awaits has returned.
Returns(i) ==
  /\ Underway(i)
  /\ GoesOn(i)
  /\ UNCHANGED <<config, position, loaded, granted, apis, handlers, alive, unset>>

\* emit() rejects: for the session that awaits it or has a catch (emitDetached), or for
\* the process, which an unhandled rejection ends.
Rejects(i) ==
  /\ emits' = [emits EXCEPT ![i].state = "threw"]
  /\ stage' = IF emits[i].event = "session_start" THEN "failed" ELSE stage
  /\ alive' = (emits[i].event \notin Uncaught)
  /\ UNCHANGED seen

\* Mutant: a failing handler ends the dispatch.
ThrowsEnds(i) ==
  /\ Underway(i)
  /\ IF strict THEN Rejects(i)
     ELSE /\ emits' = [emits EXCEPT ![i].state = "done"]
          /\ stage' = IF emits[i].event = "session_start" THEN "live" ELSE stage
          /\ UNCHANGED <<seen, alive>>
  /\ UNCHANGED <<config, position, loaded, granted, apis, handlers, unset>>

\* The handler has thrown.
Throws(i) ==
  /\ Underway(i)
  /\ IF strict THEN Rejects(i) ELSE GoesOn(i) /\ UNCHANGED alive
  /\ UNCHANGED <<config, position, loaded, granted, apis, handlers, unset>>

-----------------------------------------------------------------------------
\* The constructor of HookManager: "observe" is always allowed.
HooksInit ==
  /\ strict \in BOOLEAN
  /\ wants \in Wanted
  /\ allowed \in {{"observe"} \cup c : c \in SUBSET Capabilities}
  /\ stage = "load" /\ position = 1 /\ loaded = <<>>
  /\ granted = [p \in Plugins |-> {}] /\ apis = {}
  /\ handlers = [e \in Events |-> <<>>]
  /\ emits = <<>> /\ alive = TRUE /\ seen = {} /\ unset = FALSE

HooksNext ==
  \/ Load \/ LoadFails \/ AllLoaded
  \/ Register \/ SetupEnds \/ SetupThrows \/ AllRegistered
  \/ \E p \in Plugins, e \in Events : Adds(p, e)
  \/ \E e \in Events : Emit(e)
  \/ \E i \in DOMAIN emits : Returns(i) \/ Throws(i)

HooksSpec == HooksInit /\ [][HooksNext]_hvars

-----------------------------------------------------------------------------
(* Properties *)

\* docs/guide/hooks.md:86 "Plugin capabilities are default-deny": a field that
\* redactPayload knows only comes to plugins that requested its capability and may have
\* it, however late and from wherever their handlers were added. (What hooks.md:91 says
\* goes further: execOutput, searchMatches and diff hold the same raw result, and
\* every plugin that listens gets them.)
DataIsGranted ==
  \A s \in seen : s[2] \in DOMAIN Redacted => Redacted[s[2]] \in wants[s[1]] \cap allowed

\* docs/guide/hooks.md:102 "Non-strict mode isolates plugin failures": then every
\* handler that was there when an event came has been told of it when its dispatch ends,
\* whatever the ones before it and other dispatches did, and neither session nor
\* process fails for a plugin's sake, but for its setup.
FailuresStayApart ==
  ~strict =>
    /\ \A i \in DOMAIN emits :
         emits[i].state # "threw" /\ (emits[i].state = "done" => emits[i].at >= emits[i].began)
    /\ alive /\ (stage = "failed" => unset)

\* Plugins get no more than they asked for and may have, and outside strict mode none
\* keeps the others from what happens.
PluginsContained == DataIsGranted /\ FailuresStayApart
=============================================================================
