----------------------------- MODULE MCDelivery -----------------------------
(***************************************************************************)
(* Two topics of one Feishu group, a WebSocket chat that is open on two    *)
(* connections, and one with two sessions of a user, one of which has      *)
(* sub-agents that report back, in combinations.                           *)
(***************************************************************************)
EXTENDS Delivery

CONSTANTS topic1, topic2, stream, asked, asked2, report1, report2, group, web, quiet, yes, no, reader, phone, laptop, desk

MCTurns == {topic1, topic2, stream, asked, asked2, report1, report2}
MCStreaming == {topic1, topic2, stream}
MCChatOf == [t \in MCTurns |->
    IF t \in {topic1, topic2} THEN group ELSE IF t = stream THEN web ELSE quiet]
MCOriginOf == [t \in MCTurns |-> IF t \in {report1, report2} THEN asked ELSE NoTurn]
MCTexts == {yes, no}
MCClients == {reader, phone, laptop, desk}
MCOn == [k \in MCClients |-> IF k = reader THEN group ELSE IF k = desk THEN quiet ELSE web]

OneCard == {[turns |-> {topic1}, segments |-> 2, pieces |-> 2, fails |-> 0, moves |-> 0]}

Environment(ts, segments, pieces, fails, moves) ==
    [turns |-> ts, segments |-> segments, pieces |-> pieces, fails |-> fails, moves |-> moves]

MCEnvironments == OneCard \cup
    { Environment({topic1, topic2}, 1, 1, 0, 0), Environment({topic1}, 1, 1, 2, 0),
      Environment({stream, topic1}, 1, 1, 0, 0),
      Environment({stream}, 2, 2, 1, 0), Environment({stream}, 2, 1, 0, 1),
      Environment({stream}, 1, 2, 1, 1), Environment({stream}, 1, 1, 2, 1),
      Environment({asked, asked2, report1}, 1, 1, 2, 1),
      Environment({asked, report1, report2}, 1, 1, 2, 1) }

=============================================================================
