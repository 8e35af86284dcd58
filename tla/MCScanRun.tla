----------------------------- MODULE MCScanRun ------------------------------
(* Command lines for the instances of ScanRun.                             *)
EXTENDS ScanRun

Options(t, p, s, o) ==
    [tui |-> t, progressURL |-> p, streamJSON |-> s,
     outputs |-> o, arpDead |-> TRUE]

Interactive == Options(TRUE, FALSE, FALSE, {})
Console == Options(FALSE, FALSE, FALSE, {"json", "csv", "webhook"})
Webhook == Options(FALSE, TRUE, FALSE, {"json"})
Stream == Options(FALSE, FALSE, TRUE, {"json"})

Both == Options(FALSE, TRUE, TRUE, {})

AllKinds == {Interactive, Console, Webhook, Stream, Both}
OnlyWebhook == {Webhook}
FirstHost == {1} \X Ports
=============================================================================
