----------------------------- MODULE PingClient -----------------------------
(***************************************************************************)
(* PingClient of ping_client.py: the Python callback it stores and the    *)
(* C function pointer it hands to the ping application of the lwIP        *)
(* library with set_ping_callback. The C side is not in this repository:  *)
(* on an echo reply it calls the registered pointer, unless that is NULL. *)
(* The ctypes plumbing of __init__ (wrap_function, CFUNCTYPE) keeps no    *)
(* state. A callback is named by a string; "None" is Python's None.       *)
(***************************************************************************)

VARIABLES
    pingCallback,  \* PingClient._ping_callback
    cCallback      \* what set_ping_callback last gave lwIP: "internal" | "null"

pingVars == <<pingCallback, cCallback>>

PingInit == pingCallback = "None" /\ cCallback = "null"

(* ping(target_ip, callback): store the callback, register                *)
(* _ping_callback_internal with lwIP, then ping_init and ping_send_now,   *)
(* whose echo request the caller composes with this step.                 *)
Ping(callback) ==
    /\ pingCallback' = callback
    /\ cCallback' = "internal"

(* _ping_callback_internal(ping_result), called by lwIP: register the     *)
(* NULL pointer, then take the stored callback and clear it. The caller   *)
(* calls the callback it read, pingCallback, unless that is "None".       *)
PingCallbackInternal ==
    /\ cCallback' = "null"
    /\ pingCallback' = "None"

PingTypeOK(Callbacks) ==
    /\ pingCallback \in Callbacks \cup {"None"}
    /\ cCallback \in {"internal", "null"}

====
