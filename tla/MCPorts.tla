------------------------------- MODULE MCPorts -------------------------------
(* Small instances for TLC of what goes through Mach ports: the buffer of the *)
(* log and its reader, the server of logd and its clients, and a Mach channel. *)
(* A behaviour is about one of them, the variable object says which; they      *)
(* share the variables of Firehose, which the others rename.                   *)
EXTENDS Firehose, TLC

CONSTANTS
  t1, t2, wk, kd, c1, c2, m1, m2, m3,
  Channeled  \* the plans of Mach

VARIABLE object

MCThreads == {t1, t2}

\* Chunks a bank may use: more if one stream is used or if memory is not scarce.
MCTotals == [scarce \in BOOLEAN |-> [n \in 0 .. 2 |-> IF scarce THEN 1 ELSE IF n = 0 THEN 2 ELSE 3]]

Log(s, reliable) == [kind |-> "log", stream |-> s, reliable |-> reliable]
Flush(s) == [kind |-> "flush", stream |-> s, reliable |-> FALSE]
Asked(calls, may) == [calls |-> calls, may |-> may]

MCLogged == {
  Asked(<<Log(MemStream, TRUE), Log(MemStream, TRUE), Log(IoStream, FALSE)>>, {"die"}),
  Asked(<<Log(IoStream, FALSE), Log(IoStream, FALSE), Log(IoStream, FALSE),
           Log(IoStream, FALSE)>>, {"pressure"}),
  Asked(<<Log(MemStream, TRUE), Flush(MemStream), Log(MemStream, TRUE)>>, {"restart"}),
  Asked(<<Log(MemStream, TRUE), Log(IoStream, TRUE), Log(MemStream, TRUE),
           Log(MemStream, FALSE)>>, {})}
\* TLC evaluates MCLogged once, but what the cfg substitutes for a constant each time.
MCScripts == MCLogged

\* A client of logd: the messages it sends, the snapshots meanwhile, what may happen.
Client(messages, snapshots, may) == [messages |-> messages, snapshots |-> snapshots, may |-> may]
Turns == [quarantined \in BOOLEAN |-> IF quarantined THEN 1 ELSE 2]
Served == {
  Client(1, 1, {"die"}), Client(2, 0, {"die"}), Client(2, 0, {"quarantine", "suspend"}),
  Client(0, 1, {"quarantine"}), Client(1, 0, {"corrupt"})}

Server == INSTANCE FirehoseServer WITH
            Clients <- {c1, c2}, Turn <- Turns, Plans <- Served,
            fc <- stream, list <- bank, source <- limits, suspended <- low,
            queue <- ring, running <- drain, snap <- mail, plan <- script

Send(m) == <<"send", m>>
Cancel == <<"cancel", Null>>
Release == <<"release", Null>>

\* The calls of two clients of a channel and the kinds of three messages; the message
\* of the check-in; whether the channel is installed; messages that come in, how often
\* the port is full; whether the peer dies, whether it answers.
Used(a, b, kinds, checkin, installed, arrivals, fills, dies, answers) ==
  [calls |-> (t1 :> a) @@ (t2 :> b),
   kind |-> (m1 :> kinds[1]) @@ (m2 :> kinds[2]) @@ (m3 :> kinds[3]),
   checkin |-> checkin, installed |-> installed, arrivals |-> arrivals,
   fills |-> fills, dies |-> dies, answers |-> answers]

MCChanneled == <<
  Used(<<Send(m1)>>, <<Cancel>>, <<"oneway", "oneway", "checkin">>, m3, FALSE, 0, 0, FALSE, FALSE),
  Used(<<Send(m1), Cancel, Release>>, <<>>, <<"oneway", "oneway", "oneway">>, Null, TRUE, 0, 1, FALSE, FALSE),
  Used(<<Send(m1)>>, <<Cancel, Release>>, <<"wait", "oneway", "oneway">>, Null, TRUE, 0, 0, FALSE, TRUE),
  Used(<<Send(m1)>>, <<<<"barrier", m2>>, Send(m3)>>, <<"oneway", "barrier", "oneway">>, Null, TRUE, 0, 1, FALSE, FALSE),
  Used(<<Send(m1), Cancel>>, <<>>, <<"reply", "oneway", "oneway">>, Null, TRUE, 0, 0, FALSE, TRUE),
  Used(<<Send(m1)>>, <<Send(m2)>>, <<"oneway", "oneway", "oneway">>, Null, TRUE, 0, 1, TRUE, FALSE),
  Used(<<Send(m1), <<"reconnect", m3>>, Send(m2)>>, <<>>, <<"reply", "oneway", "checkin">>, Null, TRUE, 0, 1, FALSE, TRUE),
  Used(<<<<"receive barrier", m1>>, Cancel>>, <<>>, <<"barrier", "oneway", "oneway">>, Null, TRUE, 1, 0, FALSE, FALSE),
  Used(<<Send(m1)>>, <<<<"result", m2>>, Send(m3)>>, <<"wait", "oneway", "answer">>, Null, TRUE, 0, 0, FALSE, TRUE)>>
MCChannels == MCChanneled

Mach == INSTANCE Mach WITH
          Clients <- {t1, t2}, Worker <- wk, Manager <- kd, Messages <- {m1, m2, m3},
          Plans <- Channeled, plan <- script, mach <- chunk, at <- th

FirehoseRest ==
  /\ lossStart = 0 /\ bitmap = 0 /\ tail = 0 /\ head = 0 /\ seen = 0 /\ sendp = 0
  /\ logd = 0 /\ told = 0
ServerRest ==
  /\ stream = 0 /\ bank = 0 /\ limits = 0 /\ low = 0 /\ ring = 0 /\ drain = 0 /\ mail = 0

MCInit ==
  \/ object = "log" /\ Init
  \/ object = "server" /\ Server!Init /\ FirehoseRest /\ chunk = 0 /\ th = 0
  \/ object = "channel" /\ Mach!MachInit /\ FirehoseRest /\ ServerRest

MCNext ==
  \/ object = "log" /\ Next /\ UNCHANGED object
  \/ /\ object = "server" /\ Server!Next
     /\ UNCHANGED <<object, lossStart, bitmap, tail, head, seen, sendp, logd, told, chunk, th>>
  \/ /\ object = "channel" /\ Mach!MachNext
     /\ UNCHANGED <<object, lossStart, bitmap, tail, head, seen, sendp, logd, told,
                    stream, bank, limits, low, ring, drain, mail>>

MCSpec == MCInit /\ [][MCNext]_<<object, vars>>

\* No tracepoint is hidden, and logd reads each once, or it is counted as lost; the
\* slots of a bank and the gates of its streams are given back.  logd drains each
\* client that has something to say, finalizes one that died once, and a snapshot
\* finishes when it has seen all it waits for.
LoggingIsSound ==
  /\ object = "log" => FirehoseIsSound
  /\ object = "server" => Server!ServerIsSound

\* Messages of a channel leave in order and have one fate, replies come once, barriers
\* run between the messages they separate, and the channel is not used after its end.
MachChannelsAreSound == object = "channel" => Mach!MachIsSound
=============================================================================
