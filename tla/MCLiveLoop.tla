----------------------------- MODULE MCLiveLoop -----------------------------
(* Small session machines for the live loop. *)
EXTENDS LiveLoop

(* A machine with REST snapshots, a heartbeat, and every flag action. *)
FullConnected    == {<<>>, <<"Write", "Http">>, <<"Http", "Http">>, <<"Live">>}
FullFrame        == {<<>>, <<"Batch", "Live">>, <<"Degraded">>, <<"System", "Reconnect">>,
                     <<"Http">>, <<"Mirror">>, <<"CancelTimer">>, <<"Error">>}
FullTimer        == {<<"Timer">>, <<"Reconnect">>, <<"Stop">>}
FullResponse     == {<<"Live">>, <<"Http">>, <<"Reconnect">>, <<"Batch", "Timer">>}
FullDisconnected == {<<>>, <<"System">>}

(* One whose responses keep asking for more. *)
ChainConnected == {<<"Http">>, <<"Timer", "Write">>}
ChainFrame     == {<<>>, <<"Mirror">>, <<"CancelTimer">>}
ChainTimer     == {<<"Http">>}
ChainResponse  == {<<"Http">>, <<"Reconnect">>}
Silent         == {<<>>}

(* One that asks for a reconnect when its first request fails. *)
QuietConnected == {<<"Http">>}
QuietResponse  == {<<"Reconnect">>, <<>>}

Steady == {0}
Jumpy  == {0, 1}
=============================================================================
