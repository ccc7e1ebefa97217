----------------------------- MODULE Lifecycle -----------------------------
(* The lifecycle flags and the verbs that surfaces press: what each verb   *)
(* raises and lowers, in ControlPlane.apply_command (ethos/core/control.py)*)
(* and in CONTROL_FLAGS of the bridge (web/server/index.mjs) alike.        *)

Holds == {"paused", "pause_actions", "emergency"}
Flags == Holds \cup {"stopped", "preview"}

AllVerbs == {"pause_actions", "pause_all", "resume", "stop", "emergency_stop",
             "preview_on", "preview_off"}

Raises(v) ==
    CASE v = "pause_actions"  -> {"pause_actions"}
      [] v = "pause_all"      -> {"paused", "pause_actions"}
      [] v = "stop"           -> {"stopped"}
      [] v = "emergency_stop" -> Flags \ {"preview"}
      [] v = "preview_on"     -> {"preview"}
      [] OTHER                -> {}

Lowers(v) ==
    CASE v = "resume"      -> Flags \ {"preview"}
      [] v = "preview_off" -> {"preview"}
      [] OTHER             -> {}

\* A verb touches the flags it names and no other.
Merge(v, standing) == (standing \cup Raises(v)) \ Lowers(v)
=============================================================================
