---------------------------- MODULE PluginLifecycle ----------------------------
(***************************************************************************)
(* What the author of a plugin may rely on (plugin.h and the plugin api of *)
(* evcollect.h): in which order the daemon calls the functions of a plugin. *)
(* A plugin is initialized once and before anything else; it is attached   *)
(* to an event or a target while the daemon is set up, used for what it is *)
(* attached to while the daemon runs, and detached from it and freed, in   *)
(* that order, when the daemon stops.  Calls do not overlap.               *)
(*                                                                         *)
(* A function that a plugin does not have is skipped as if it had been     *)
(* called and had succeeded.                                               *)
(***************************************************************************)
CONSTANTS
    Plugins,    \* the plugins
    Idle        \* no call, and no attachment

VARIABLES
    stage,      \* of the daemon
    phase,      \* of each plugin
    users,      \* what each plugin is attached to
    call        \* the call that a plugin has not returned from

vars == <<stage, phase, users, call>>

Use == {"getnextevent", "hasnextevent", "emitevent"}

Init ==
    /\ stage = "setup"
    /\ phase = [p \in Plugins |-> "new"]
    /\ users = [p \in Plugins |-> {}]
    /\ call = Idle

(* When a function of p may be called, for its attachment u if for any.    *)
Allowed(fn, p, u) ==
    \/ fn = "init" /\ stage = "setup" /\ phase[p] = "new" /\ u = Idle
    \/ fn = "attach" /\ stage = "setup" /\ phase[p] = "ready" /\ u = Idle
    \/ fn \in Use /\ stage = "running" /\ phase[p] = "ready" /\ u \in users[p]
    \/ fn = "detach" /\ stage = "down" /\ phase[p] = "ready" /\ u \in users[p]
    \/ fn = "free" /\ stage = "down" /\ phase[p] = "ready" /\ users[p] = {} /\ u = Idle

(* What it means that the function has returned and succeeded.             *)
Succeed(fn, p, u) ==
    /\ phase' = CASE fn = "init" -> [phase EXCEPT ![p] = "ready"]
                  [] fn = "free" -> [phase EXCEPT ![p] = "freed"]
                  [] OTHER -> phase
    /\ IF fn = "attach"
       THEN \E new \in users'[p] \ users[p] :
              users' = [users EXCEPT ![p] = @ \union {new}]
       ELSE users' = IF fn = "detach" THEN [users EXCEPT ![p] = @ \ {u}] ELSE users
    /\ UNCHANGED stage

(* The setup has failed.  Attachments for an event or a target that could  *)
(* not be set up completely are forgotten: these are never detached.       *)
Fail ==
    /\ stage = "setup"
    /\ stage' = "down"
    /\ \A p \in Plugins : users'[p] \subseteq users[p]
    /\ UNCHANGED phase

Begin(fn, p, u) ==
    /\ call = Idle
    /\ Allowed(fn, p, u)
    /\ call' = [fn |-> fn, plugin |-> p, user |-> u]
    /\ UNCHANGED <<stage, phase, users>>

Skip(fn, p, u) ==
    /\ call = Idle
    /\ Allowed(fn, p, u)
    /\ Succeed(fn, p, u)
    /\ UNCHANGED call

(* A call returns; if init or attach fails, so does the setup.             *)
End ==
    /\ call # Idle
    /\ call' = Idle
    /\ \/ Succeed(call.fn, call.plugin, call.user)
       \/ call.fn \in {"init", "attach"} /\ Fail

GiveUp == call = Idle /\ Fail /\ UNCHANGED call

Run == stage = "setup" /\ stage' = "running" /\ call = Idle /\ UNCHANGED <<phase, users, call>>

Stop == stage = "running" /\ stage' = "down" /\ call = Idle /\ UNCHANGED <<phase, users, call>>

Functions == {"init", "attach", "detach", "free"} \union Use

Next ==
    \/ \E fn \in Functions, p \in Plugins : \E u \in users[p] \union {Idle} :
          Begin(fn, p, u) \/ Skip(fn, p, u)
    \/ End \/ GiveUp \/ Run \/ Stop

Spec == Init /\ [][Next]_vars
================================================================================
