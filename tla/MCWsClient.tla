------------------------------ MODULE MCWsClient ------------------------------
(* Small instances of WsClient for TLC. *)
EXTENDS WsClient

Created(timeout, ack_return, ack_mod, ack_error) ==
  [timeout |-> timeout, has_id |-> TRUE, ack_return |-> ack_return,
   ack_mod |-> ack_mod, ack_error |-> ack_error]

\* The client of the README, one with a timeout that emulates protocol errors,
\* and one that leaves ACKs to the application.
ThreeConfigs == { Created(FALSE, TRUE, FALSE, FALSE),
                  Created(TRUE, TRUE, FALSE, TRUE),
                  Created(FALSE, TRUE, TRUE, FALSE) }

\* The client of the test: WsClient(url, timeout=5, config={"ack_return": 1}).
TestConfig == {Created(TRUE, TRUE, FALSE, FALSE)}

\* message_count=2 and None.
TwoOrAll == {2, NoLimit}
=============================================================================
