------------------------------ MODULE MCInbox -------------------------------
(***************************************************************************)
(* An instance of Inbox for TLC: handlers that time out before they know   *)
(* the payment, or reject the signature and reconcile the payment by API.  *)
(***************************************************************************)
EXTENDS Inbox

OneWait == <<0>>

Resp(err, status, outcome, auth, named, failed) ==
    [err |-> err, status |-> status, outcome |-> outcome, auth |-> auth,
     named |-> named, failed |-> failed]

Responses ==
    {Resp("timeout", "", "", "", FALSE, FALSE),
     Resp("", "401", "reconciled", "", TRUE, FALSE)}
=============================================================================
