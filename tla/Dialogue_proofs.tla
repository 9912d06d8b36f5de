-------------------------- MODULE Dialogue_proofs ---------------------------
(***************************************************************************)
(* The dialogue of the firmware and the module, in which everything may be *)
(* under way at once.  What a line means depends on the lines before it,   *)
(* so that what the module says now is understood only when all that       *)
(* waits in the queue and on the wire has been.  The proofs look ahead     *)
(* along it: a path gives the contexts in which the lines that wait will   *)
(* be met, should none of them fail an assertion.                          *)
(***************************************************************************)
EXTENDS WiFiLock_proofs

(* What the AT command processor knows where it meets a line.              *)
Ctx == [proc : Processors, conn : Conns, sckt : Sckts, err : {0, 1}]

Now == [proc |-> pfnATCmdProcessor, conn |-> hciWiFiState.conn,
        sckt |-> hciWiFiState.sckt, err |-> IF errReason THEN 1 ELSE 0]

Is(d, proc, conn, sckt, err) ==
  d.proc = proc /\ d.conn = conn /\ d.sckt = sckt /\ d.err = err

(* The tables of the processors, as steps from a context c to a context d. *)
JoinTakes(c, at, d) ==
  /\ c.proc = "CWJAP_CUR"
  /\ \/ at = "WIFI CONNECTED" /\ Is(d, "CWJAP_CUR", "Connected", c.sckt, c.err)
     \/ at = "WIFI GOT IP" /\ Is(d, "CWJAP_CUR", "GotIP", c.sckt, c.err)
     \/ at \in {"WIFI DISCONNECT", "+CWJAP:"}
        /\ Is(d, "CWJAP_CUR", "Disconnected", c.sckt, c.err)
     \/ at = "OK" /\ Is(d, "NULL", c.conn, c.sckt, c.err)
     \/ at = "FAIL" /\ Is(d, "NULL", "Disconnected", c.sckt, c.err)

SmartTakes(c, at, d) ==
  \/ c.proc = "CWSTARTSMART" /\ at = "OK"
     /\ Is(d, "SmartConfig", "PairingWaiting", c.sckt, c.err)
  \/ c.proc = "CWSTOPSMART" /\ at = "OK"
     /\ Is(d, "NULL", "PairingStopped", c.sckt, c.err)
  \/ /\ c.proc = "SmartConfig"
     /\ \/ at \in {"smartconfig type:", "ssid:", "password:", "WIFI CONNECTED",
                   "WIFI GOT IP"}
           /\ Is(d, "SmartConfig", c.conn, c.sckt, c.err)
        \/ at = "smartconfig connected wifi" /\ Is(d, "NULL", "PairingSuccess", c.sckt, c.err)
        \/ at = "WIFI DISCONNECT" /\ Is(d, "NULL", "PairingFailure", c.sckt, c.err)
        \/ at = "AT+CWSTOPSMART" /\ Is(d, "CWSTOPSMART", c.conn, c.sckt, c.err)

OpenTakes(c, at, d) ==
  /\ c.proc = "CIPSTART"
  /\ \/ at = "CONNECT" /\ Is(d, "CIPSTART", c.conn, "Opened", c.err)
     \/ at = "OK" /\ Is(d, "NULL", c.conn, c.sckt, 0)
     \/ at \in {"no ip", "DNS Fail"} /\ Is(d, "CIPSTART", c.conn, c.sckt, 1)
     \/ at = "ERROR" /\ c.err = 0 /\ Is(d, "CIPSTART", c.conn, "Closed", 0)
     \/ at = "ERROR" /\ c.err = 1 /\ Is(d, "NULL", c.conn, "Closed", 0)
     \/ at = "CLOSED" /\ Is(d, "NULL", c.conn, "Closed", 0)

OtherTakes(c, at, d) ==
  \/ c.proc = "CWMODE_CUR" /\ at = "OK" /\ Is(d, "NULL", c.conn, c.sckt, c.err)
  \/ c.proc = "CIPSEND" /\ at = "OK" /\ Is(d, "TxDataStream", c.conn, c.sckt, c.err)
  \/ c.proc = "CIPCLOSE" /\ at = "OK" /\ Is(d, "NULL", c.conn, "Closed", c.err)
  \/ c.proc = "CWQAP" /\ at = "AT+CWQAP" /\ Is(d, "CWQAP", c.conn, c.sckt, c.err)
  \/ c.proc = "CWQAP" /\ at = "OK" /\ Is(d, "NULL", c.conn, c.sckt, c.err)
  \/ c.proc = "TxDataStream" /\ at \in {"SEND OK", "SEND FAIL"}
     /\ Is(d, "NULL", c.conn, c.sckt, c.err)
  \/ c.proc = "TxDataStream" /\ at = "CLOSED"
     /\ Is(d, "TxDataStream", c.conn, "Closed", c.err)

(* The lines that may come at any time, where no processor has its own use *)
(* for them.                                                               *)
AnyTakes(c, at, d) ==
  \/ at \in {"+IPD", "busy p...", "ready"} /\ Is(d, c.proc, c.conn, c.sckt, c.err)
  \/ /\ c.proc \notin {"CWJAP_CUR", "SmartConfig"}
     /\ \/ at = "WIFI CONNECTED" /\ Is(d, c.proc, "Connected", c.sckt, c.err)
        \/ at = "WIFI GOT IP" /\ Is(d, c.proc, "GotIP", c.sckt, c.err)
        \/ at = "WIFI DISCONNECT" /\ Is(d, c.proc, "Disconnected", c.sckt, c.err)
  \/ /\ c.proc \notin {"CIPSTART", "TxDataStream"}
     /\ at = "CLOSED" /\ Is(d, c.proc, c.conn, "Closed", c.err)

EchoTakes(c, at, d) ==
  /\ c.proc = "NULL"
  /\ \/ at = "AT+CWMODE_CUR" /\ Is(d, "CWMODE_CUR", c.conn, c.sckt, c.err)
     \/ at = "AT+CWJAP_CUR" /\ Is(d, "CWJAP_CUR", "Connecting", c.sckt, c.err)
     \/ at = "AT+CWSTARTSMART" /\ Is(d, "CWSTARTSMART", c.conn, c.sckt, c.err)
     \/ at = "AT+CIPSTART" /\ Is(d, "CIPSTART", c.conn, "Opening", c.err)
     \/ at = "AT+CIPSEND" /\ Is(d, "CIPSEND", c.conn, c.sckt, c.err)
     \/ at = "smartconfig type:" /\ Is(d, "SmartConfig", "PairingStarted", c.sckt, c.err)
     \/ at = "AT+CIPCLOSE" /\ Is(d, "CIPCLOSE", c.conn, "Closing", c.err)
     \/ at = "AT+CWSTOPSMART" /\ Is(d, "CWSTOPSMART", c.conn, c.sckt, c.err)
     \/ at = "AT+CWQAP" /\ Is(d, "CWQAP", "Disconnecting", c.sckt, c.err)

Takes(c, at, d) ==
  \/ JoinTakes(c, at, d) \/ SmartTakes(c, at, d) \/ OpenTakes(c, at, d)
  \/ OtherTakes(c, at, d) \/ AnyTakes(c, at, d) \/ EchoTakes(c, at, d)

-----------------------------------------------------------------------------
(* The tables of the model are these steps.                                *)

(* What a change does to the parts of a state.                             *)
LEMMA ChangedParts ==
  ASSUME NEW s \in State, NEW to
  PROVE  /\ Changed(s, None) = s
         /\ Changed(s, Conn(to)).conn = to /\ Changed(s, Conn(to)).sckt = s.sckt
         /\ Changed(s, Sckt(to)).sckt = to /\ Changed(s, Sckt(to)).conn = s.conn
         /\ Changed(s, Dev(to)).conn = s.conn /\ Changed(s, Dev(to)).sckt = s.sckt
BY DEF Changed, None, Conn, Sckt, Dev, State

(* How a line is taken, in the words of the row that it meets.             *)
Meets(row, at) == row.proc = pfnATCmdProcessor /\ row.at = at

After(d, row) ==
  /\ d.proc = row.next
  /\ d.conn = Changed(hciWiFiState, row.change).conn
  /\ d.sckt = Changed(hciWiFiState, row.change).sckt
  /\ d.err = IF pfnATCmdProcessor # "CIPSTART" THEN Now.err
             ELSE IF row.next = "NULL" THEN 0
             ELSE IF row.at \in {"no ip", "DNS Fail"} THEN 1
             ELSE Now.err

(* A row has the parts it was made of.                                     *)
LEMMA RowParts ==
  ASSUME NEW p, NEW a, NEW n, NEW c, NEW b
  PROVE  /\ Row(p, a, n, c, b).proc = p /\ Row(p, a, n, c, b).at = a
         /\ Row(p, a, n, c, b).next = n /\ Row(p, a, n, c, b).change = c
         /\ Row(p, a, n, c, b).post = b
BY DEF Row

(* The reason that is known for an ERROR, after a line.                    *)
ErrAfter(p, at, n) ==
  IF p # "CIPSTART" THEN Now.err
  ELSE IF n = "NULL" THEN 0
  ELSE IF at \in {"no ip", "DNS Fail"} THEN 1
  ELSE Now.err

(* Processor p goes on as n with line a.                                   *)
Goes(d, at, p, a, n, conn, sckt) ==
  Now.proc = p /\ at = a /\ Is(d, n, conn, sckt, ErrAfter(p, a, n))

(* A row that was met, by what it changes.                                 *)
Rowed(row, at, d) ==
  /\ \A p, a, n, b : row = Row(p, a, n, None, b)
       => Goes(d, at, p, a, n, Now.conn, Now.sckt)
  /\ \A p, a, n, b, to : row = Row(p, a, n, Dev(to), b)
       => Goes(d, at, p, a, n, Now.conn, Now.sckt)
  /\ \A p, a, n, b, to : row = Row(p, a, n, Conn(to), b)
       => Goes(d, at, p, a, n, to, Now.sckt)
  /\ \A p, a, n, b, to : row = Row(p, a, n, Sckt(to), b)
       => Goes(d, at, p, a, n, Now.conn, to)

(* What a row makes of the state, by what it changes.                      *)
LEMMA RowGoes ==
  ASSUME hciWiFiState \in State, NEW row, NEW at, NEW d, Meets(row, at), After(d, row)
  PROVE  Rowed(row, at, d)
<1>1. ASSUME NEW p, NEW a, NEW n, NEW c, NEW b, row = Row(p, a, n, c, b)
      PROVE  /\ Now.proc = p /\ at = a /\ d.proc = n /\ d.err = ErrAfter(p, a, n)
             /\ d.conn = Changed(hciWiFiState, c).conn /\ d.sckt = Changed(hciWiFiState, c).sckt
  <2>1. row.proc = p /\ row.at = a /\ row.next = n /\ row.change = c
    BY <1>1, RowParts
  <2>2. at = a /\ pfnATCmdProcessor = p /\ Now.proc = p
    BY <2>1 DEF Meets, Now
  <2> QED BY <2>1, <2>2 DEF After, ErrAfter
<1>2. Now.conn = hciWiFiState.conn /\ Now.sckt = hciWiFiState.sckt
  BY DEF Now
<1>3. Changed(hciWiFiState, None) = hciWiFiState
  BY ChangedParts
<1>4. ASSUME NEW p, NEW a, NEW n, NEW b, row = Row(p, a, n, None, b)
      PROVE  Goes(d, at, p, a, n, Now.conn, Now.sckt)
  BY <1>1, <1>2, <1>3, <1>4 DEF Is, Goes
<1>5. ASSUME NEW p, NEW a, NEW n, NEW b, NEW to, row = Row(p, a, n, Dev(to), b)
      PROVE  Goes(d, at, p, a, n, Now.conn, Now.sckt)
  BY <1>1, <1>2, ChangedParts, <1>5 DEF Is, Goes
<1>6. ASSUME NEW p, NEW a, NEW n, NEW b, NEW to, row = Row(p, a, n, Conn(to), b)
      PROVE  Goes(d, at, p, a, n, to, Now.sckt)
  BY <1>1, <1>2, ChangedParts, <1>6 DEF Is, Goes
<1>7. ASSUME NEW p, NEW a, NEW n, NEW b, NEW to, row = Row(p, a, n, Sckt(to), b)
      PROVE  Goes(d, at, p, a, n, Now.conn, to)
  BY <1>1, <1>2, ChangedParts, <1>7 DEF Is, Goes
<1> QED
  BY <1>4, <1>5, <1>6, <1>7, Zenon DEF Rowed

(* Only AT+CIPSTART knows of reasons.                                      *)
LEMMA NoReason == \A p, a, n : p # "CIPSTART" => ErrAfter(p, a, n) = Now.err
BY DEF ErrAfter

(* The rows of each table lead from context to context as its steps say:   *)
(* the replies to the commands that join, ...                              *)
LEMMA JoinRepliesTake ==
  ASSUME hciWiFiState \in State, NEW at, NEW d, NEW row \in JoinReplies,
         Meets(row, at), After(d, row)
  PROVE  Takes(Now, at, d)
<1>1. Rowed(row, at, d)
  BY RowGoes
<1>2. \/ Goes(d, at, "CWMODE_CUR", "OK", "NULL", Now.conn, Now.sckt)
      \/ Goes(d, at, "CWJAP_CUR", "WIFI CONNECTED", "CWJAP_CUR", "Connected", Now.sckt)
      \/ Goes(d, at, "CWJAP_CUR", "WIFI GOT IP", "CWJAP_CUR", "GotIP", Now.sckt)
      \/ Goes(d, at, "CWJAP_CUR", "WIFI DISCONNECT", "CWJAP_CUR", "Disconnected", Now.sckt)
      \/ Goes(d, at, "CWJAP_CUR", "+CWJAP:", "CWJAP_CUR", "Disconnected", Now.sckt)
      \/ Goes(d, at, "CWJAP_CUR", "OK", "NULL", Now.conn, Now.sckt)
      \/ Goes(d, at, "CWJAP_CUR", "FAIL", "NULL", "Disconnected", Now.sckt)
  BY <1>1, Zenon DEF JoinReplies, Rowed
<1> QED
  BY <1>2, NoReason DEF Takes, JoinTakes, OtherTakes, Goes

(* ... to those that start and stop SmartConfig, ...                       *)
LEMMA SmartRepliesTake ==
  ASSUME hciWiFiState \in State, NEW at, NEW d, NEW row \in SmartReplies,
         Meets(row, at), After(d, row)
  PROVE  Takes(Now, at, d)
<1>1. Rowed(row, at, d)
  BY RowGoes
<1>2. \/ Goes(d, at, "CWSTARTSMART", "OK", "SmartConfig", "PairingWaiting", Now.sckt)
      \/ Goes(d, at, "CWSTOPSMART", "OK", "NULL", "PairingStopped", Now.sckt)
  BY <1>1, Zenon DEF SmartReplies, Rowed
<1> QED
  BY <1>2, NoReason DEF Takes, SmartTakes, Goes

(* ... to the rest, ...                                                    *)
LEMMA OtherRepliesTake ==
  ASSUME hciWiFiState \in State, NEW at, NEW d, NEW row \in OtherReplies,
         Meets(row, at), After(d, row)
  PROVE  Takes(Now, at, d)
<1>1. Rowed(row, at, d)
  BY RowGoes
<1>2. \/ Goes(d, at, "CIPSEND", "OK", "TxDataStream", Now.conn, Now.sckt)
      \/ Goes(d, at, "CIPCLOSE", "OK", "NULL", Now.conn, "Closed")
      \/ Goes(d, at, "CWQAP", "AT+CWQAP", "CWQAP", Now.conn, Now.sckt)
      \/ Goes(d, at, "CWQAP", "OK", "NULL", Now.conn, Now.sckt)
  BY <1>1, Zenon DEF OtherReplies, Rowed
<1> QED
  BY <1>2, NoReason DEF Takes, OtherTakes, Goes

(* ... the lines of SmartConfig itself, ...                                *)
LEMMA SmartConfigLinesTake ==
  ASSUME hciWiFiState \in State, NEW at, NEW d, NEW row \in SmartConfigLines,
         Meets(row, at), After(d, row)
  PROVE  Takes(Now, at, d)
<1>1. Rowed(row, at, d)
  BY RowGoes
<1>2. \/ Goes(d, at, "SmartConfig", "smartconfig type:", "SmartConfig", Now.conn, Now.sckt)
      \/ Goes(d, at, "SmartConfig", "ssid:", "SmartConfig", Now.conn, Now.sckt)
      \/ Goes(d, at, "SmartConfig", "password:", "SmartConfig", Now.conn, Now.sckt)
      \/ Goes(d, at, "SmartConfig", "WIFI CONNECTED", "SmartConfig", Now.conn, Now.sckt)
      \/ Goes(d, at, "SmartConfig", "WIFI GOT IP", "SmartConfig", Now.conn, Now.sckt)
      \/ Goes(d, at, "SmartConfig", "smartconfig connected wifi", "NULL", "PairingSuccess",
               Now.sckt)
      \/ Goes(d, at, "SmartConfig", "WIFI DISCONNECT", "NULL", "PairingFailure", Now.sckt)
      \/ Goes(d, at, "SmartConfig", "AT+CWSTOPSMART", "CWSTOPSMART", Now.conn, Now.sckt)
  BY <1>1, Zenon DEF SmartConfigLines, Rowed
<1> QED
  BY <1>2, NoReason DEF Takes, SmartTakes, Goes

(* ... the replies to data that was sent, ...                              *)
LEMMA TxRepliesTake ==
  ASSUME hciWiFiState \in State, NEW at, NEW d, NEW row \in TxReplies,
         Meets(row, at), After(d, row)
  PROVE  Takes(Now, at, d)
<1>1. Rowed(row, at, d)
  BY RowGoes
<1>2. \/ Goes(d, at, "TxDataStream", "SEND OK", "NULL", Now.conn, Now.sckt)
      \/ Goes(d, at, "TxDataStream", "CLOSED", "TxDataStream", Now.conn, "Closed")
      \/ Goes(d, at, "TxDataStream", "SEND FAIL", "NULL", Now.conn, Now.sckt)
  BY <1>1, Zenon DEF TxReplies, Rowed
<1> QED
  BY <1>2, NoReason DEF Takes, OtherTakes, Goes

(* ... and the echoes.                                                     *)
LEMMA EchoesTake ==
  ASSUME hciWiFiState \in State, NEW at, NEW d, NEW row \in Echoes,
         Meets(row, at), After(d, row)
  PROVE  Takes(Now, at, d)
<1>1. Rowed(row, at, d)
  BY RowGoes
<1>2. \/ Goes(d, at, "NULL", "AT+CWMODE_CUR", "CWMODE_CUR", Now.conn, Now.sckt)
      \/ Goes(d, at, "NULL", "AT+CWJAP_CUR", "CWJAP_CUR", "Connecting", Now.sckt)
      \/ Goes(d, at, "NULL", "AT+CWSTARTSMART", "CWSTARTSMART", Now.conn, Now.sckt)
      \/ Goes(d, at, "NULL", "AT+CIPSTART", "CIPSTART", Now.conn, "Opening")
      \/ Goes(d, at, "NULL", "AT+CIPSEND", "CIPSEND", Now.conn, Now.sckt)
      \/ Goes(d, at, "NULL", "smartconfig type:", "SmartConfig", "PairingStarted", Now.sckt)
      \/ Goes(d, at, "NULL", "AT+CIPCLOSE", "CIPCLOSE", Now.conn, "Closing")
      \/ Goes(d, at, "NULL", "AT+CWSTOPSMART", "CWSTOPSMART", Now.conn, Now.sckt)
      \/ Goes(d, at, "NULL", "AT+CWQAP", "CWQAP", "Disconnecting", Now.sckt)
  BY <1>1, Zenon DEF Echoes, Rowed
<1> QED
  BY <1>2, NoReason DEF Takes, EchoTakes, Goes

(* ... which says whether an ERROR is the last line.                       *)
LEMMA OpenRepliesTake ==
  ASSUME hciWiFiState \in State, errReason \in BOOLEAN, NEW at, NEW d,
         NEW row \in OpenReplies, Meets(row, at), After(d, row)
  PROVE  Takes(Now, at, d)
<1>1. Rowed(row, at, d)
  BY RowGoes
<1> DEFINE n == IF errReason THEN "NULL" ELSE "CIPSTART"
<1>2. \/ Goes(d, at, "CIPSTART", "CONNECT", "CIPSTART", Now.conn, "Opened")
      \/ Goes(d, at, "CIPSTART", "OK", "NULL", Now.conn, Now.sckt)
      \/ Goes(d, at, "CIPSTART", "no ip", "CIPSTART", Now.conn, Now.sckt)
      \/ Goes(d, at, "CIPSTART", "DNS Fail", "CIPSTART", Now.conn, Now.sckt)
      \/ Goes(d, at, "CIPSTART", "ERROR", n, Now.conn, "Closed")
      \/ Goes(d, at, "CIPSTART", "CLOSED", "NULL", Now.conn, "Closed")
  BY <1>1, Zenon DEF OpenReplies, Rowed, n
<1>3. /\ ErrAfter("CIPSTART", "CONNECT", "CIPSTART") = Now.err
      /\ ErrAfter("CIPSTART", "OK", "NULL") = 0
      /\ ErrAfter("CIPSTART", "no ip", "CIPSTART") = 1
      /\ ErrAfter("CIPSTART", "DNS Fail", "CIPSTART") = 1
      /\ ErrAfter("CIPSTART", "ERROR", "NULL") = 0
      /\ ErrAfter("CIPSTART", "ERROR", "CIPSTART") = Now.err
      /\ ErrAfter("CIPSTART", "CLOSED", "NULL") = 0
  BY DEF ErrAfter
<1>4. \/ errReason /\ n = "NULL" /\ Now.err = 1
      \/ ~errReason /\ n = "CIPSTART" /\ Now.err = 0
  BY DEF Now
<1> HIDE DEF n
<1> QED
  BY <1>2, <1>3, <1>4 DEF Takes, OpenTakes, Goes

(* What may come at any time, unless the processor has its own use for it. *)
LEMMA UnaskedTake ==
  ASSUME hciWiFiState \in State, NEW at, NEW d, NEW row \in Unasked,
         Meets(row, at), After(d, row), RowsIn(Replies, at) = {}
  PROVE  Takes(Now, at, d)
<1>1. Rowed(row, at, d)
  BY RowGoes
<1> DEFINE p == pfnATCmdProcessor
<1>2. \/ Goes(d, at, p, "+IPD", p, Now.conn, Now.sckt)
      \/ Goes(d, at, p, "busy p...", p, Now.conn, Now.sckt)
      \/ Goes(d, at, p, "ready", p, Now.conn, Now.sckt)
      \/ Goes(d, at, p, "WIFI CONNECTED", p, "Connected", Now.sckt)
      \/ Goes(d, at, p, "WIFI GOT IP", p, "GotIP", Now.sckt)
      \/ Goes(d, at, p, "WIFI DISCONNECT", p, "Disconnected", Now.sckt)
      \/ Goes(d, at, p, "CLOSED", p, Now.conn, "Closed")
  BY <1>1, Zenon DEF Unasked, Generic, Rowed
<1>3. \A a : a \notin {"no ip", "DNS Fail"} => ErrAfter(p, a, p) = Now.err
  BY DEF ErrAfter
<1>4. ASSUME NEW n, NEW c, NEW b, Row(p, at, n, c, b) \in Replies PROVE FALSE
  <2>1. Row(p, at, n, c, b).proc = p /\ Row(p, at, n, c, b).at = at
    BY RowParts
  <2> QED BY <1>4, <2>1 DEF RowsIn
<1>5. at \in {"WIFI CONNECTED", "WIFI GOT IP", "WIFI DISCONNECT"}
        => p \notin {"CWJAP_CUR", "SmartConfig"}
  BY <1>4, Zenon DEF Replies, JoinReplies, SmartConfigLines
<1>6. at = "CLOSED" => p \notin {"CIPSTART", "TxDataStream"}
  BY <1>4, Zenon DEF Replies, OpenReplies, TxReplies
<1>7. Now.proc = p
  BY DEF Now
<1> HIDE DEF p
<1> QED
  BY <1>2, <1>3, <1>5, <1>6, <1>7 DEF Takes, AnyTakes, Goes

(* Whatever line is worked off, it is taken as the tables say.             *)
LEMMA RowsTake ==
  ASSUME hciWiFiState \in State, errReason \in BOOLEAN, NEW at, NEW d,
         NEW row \in RowsFor(at), After(d, row)
  PROVE  Takes(Now, at, d)
<1>1. \/ row \in Replies /\ Meets(row, at)
      \/ row \in Unasked /\ Meets(row, at) /\ RowsIn(Replies, at) = {}
      \/ row \in Echoes /\ Meets(row, at)
  BY DEF RowsFor, RowsIn, Meets
<1> QED
  BY <1>1, JoinRepliesTake, SmartRepliesTake, OpenRepliesTake, OtherRepliesTake,
     SmartConfigLinesTake, TxRepliesTake, UnaskedTake, EchoesTake, Zenon DEF Replies

(* The line itself: what is known afterwards is a step from what was.      *)
LEMMA LineTakes ==
  ASSUME Typed, NEW line, NEW row \in RowsFor(line.at), HciWiFiATCoP(line, row)
  PROVE  Takes(Now, line.at, Now')
<1>1. hciWiFiState \in State /\ errReason \in BOOLEAN
  BY Zenon DEF Typed, Firmware, Flags
<1>2. row.at = line.at
  BY DEF RowsFor, RowsIn
<1>3. Now'.proc = row.next
  BY DEF Now, HciWiFiATCoP
<1>4. Now'.conn = Changed(hciWiFiState, row.change).conn
      /\ Now'.sckt = Changed(hciWiFiState, row.change).sckt
  BY DEF Now, HciWiFiATCoP
<1>5. Now'.err = IF pfnATCmdProcessor # "CIPSTART" THEN Now.err
                 ELSE IF row.next = "NULL" THEN 0
                 ELSE IF row.at \in {"no ip", "DNS Fail"} THEN 1
                 ELSE Now.err
  <2>1. Now'.err = IF errReason' THEN 1 ELSE 0
    BY DEF Now
  <2>2. Now.err = IF errReason THEN 1 ELSE 0
    BY DEF Now
  <2>3. CASE pfnATCmdProcessor # "CIPSTART"
    <3>1. errReason' = errReason
      BY <2>3, Zenon DEF HciWiFiATCoP
    <3> QED BY <2>1, <2>2, <2>3, <3>1
  <2>4. CASE pfnATCmdProcessor = "CIPSTART"
    <3>1. errReason' = (row.next # "NULL" /\ (errReason \/ row.at \in {"no ip", "DNS Fail"}))
      BY <1>2, <2>4, Zenon DEF HciWiFiATCoP
    <3>2. CASE row.next = "NULL"
      BY <2>1, <2>4, <3>1, <3>2
    <3>3. CASE row.next # "NULL" /\ row.at \in {"no ip", "DNS Fail"}
      BY <2>1, <2>4, <3>1, <3>3
    <3>4. CASE row.next # "NULL" /\ row.at \notin {"no ip", "DNS Fail"}
      <4>1. errReason' <=> errReason
        BY <3>1, <3>4, Zenon
      <4> QED BY <2>1, <2>2, <2>4, <3>4, <4>1
    <3> QED BY <3>2, <3>3, <3>4
  <2> QED BY <2>3, <2>4
<1>6. After(Now', row)
  BY <1>3, <1>4, <1>5, Zenon DEF After
<1> QED BY <1>1, <1>6, RowsTake, Zenon

-----------------------------------------------------------------------------
(* Looking ahead.                                                          *)

(* Where a line can be met at all.                                         *)
Fit(c, at) ==
  /\ at = "WIFI GOT IP" => c.proc \in {"CWJAP_CUR", "SmartConfig"}
  /\ at = "CLOSED" => ~(c.proc = "CWJAP_CUR" /\ c.conn = "Disconnected")
  /\ at = "+IPD" => c.sckt = "Opened" /\ c.proc # "CIPSTART"

HasOpen(c) == \E i \in 1 .. Len(c) : c[i].at = "AT+CIPSTART"

(* What the firmware knows when it has heard all that module e said, while *)
(* the module has the commands c to read.                                  *)
Fits(e, d, open) ==
  /\ d.proc = "CWJAP_CUR" <=> e.busy = "AT+CWJAP_CUR"
  /\ e.smart # 0 => d.proc = "SmartConfig"
  /\ e.busy = "AT+CIPSTART" => d.proc = "CIPSTART" /\ ~open
  /\ e.sckt => /\ d.sckt = "Opened" /\ d.proc # "CIPSTART"
               /\ ~(d.proc = "CWJAP_CUR" /\ d.conn = "Disconnected")
               /\ ~open

Ends(e, c) == {d \in Ctx : Fits(e, d, HasOpen(c))}

Paths == [Nat -> Ctx]

Heard(c, msg, d) ==
  IF msg.head = "ATCmd" THEN Takes(c, msg.line.at, d) ELSE d = c

(* Path p follows the first n messages of m, path q the first n lines of w.*)
Along(m, p, n) == \A k \in 1 .. n : Heard(p[k - 1], m[k], p[k])
Speaks(w, q, n) == \A k \in 1 .. n : Takes(q[k - 1], w[k].at, q[k])

(* In whatever way the lines w are heard from d on, they fit, and what is  *)
(* known in the end is one of E.                                           *)
WireFit(d, w, E) ==
  \A q \in Paths : q[0] = d =>
    /\ \A n \in 1 .. Len(w) : Speaks(w, q, n - 1) => Fit(q[n - 1], w[n].at)
    /\ Speaks(w, q, Len(w)) => q[Len(w)] \in E

MailFit(c, m, w, E) ==
  \A p \in Paths : p[0] = c =>
    /\ \A n \in 1 .. Len(m) :
         Along(m, p, n - 1) /\ m[n].head = "ATCmd" => Fit(p[n - 1], m[n].line.at)
    /\ Along(m, p, Len(m)) => WireFit(p[Len(m)], w, E)

Foreseen == MailFit(Now, mail, wire, Ends(esp, cmds))

(* A message that is worked off leaves the rest of every path.             *)
LEMMA MailHead ==
  ASSUME NEW c \in Ctx, NEW d \in Ctx, NEW m \in Seq(Message), m # << >>, NEW w, NEW E,
         Heard(c, Head(m), d), MailFit(c, m, w, E)
  PROVE  MailFit(d, Tail(m), w, E)
<1> DEFINE t == Tail(m)
<1>1. Len(t) = Len(m) - 1 /\ Len(m) \in Nat /\ Len(m) > 0 /\ m[1] = Head(m)
      /\ \A k \in 1 .. Len(t) : t[k] = m[k + 1]
  BY HeadTailProperties
<1> SUFFICES ASSUME NEW p \in Paths, p[0] = d
    PROVE  /\ \A n \in 1 .. Len(t) :
                Along(t, p, n - 1) /\ t[n].head = "ATCmd" => Fit(p[n - 1], t[n].line.at)
           /\ Along(t, p, Len(t)) => WireFit(p[Len(t)], w, E)
  BY Zenon DEF MailFit
<1> HIDE DEF t
<1> DEFINE q == [k \in Nat |-> IF k = 0 THEN c ELSE p[k - 1]]
<1>2. q \in Paths /\ q[0] = c /\ \A k \in Nat : k > 0 => q[k] = p[k - 1]
  BY DEF Paths
<1> HIDE DEF q
<1>3. ASSUME NEW n \in 0 .. Len(t), Along(t, p, n) PROVE Along(m, q, n + 1)
  <2> SUFFICES ASSUME NEW k \in 1 .. n + 1 PROVE Heard(q[k - 1], m[k], q[k])
    BY DEF Along
  <2>1. CASE k = 1
    <3>1. q[k - 1] = c /\ m[k] = Head(m) /\ q[k] = d
      BY <1>1, <1>2, <2>1
    <3> QED BY <3>1
  <2>2. CASE k > 1
    <3>1. k - 1 \in 1 .. n /\ k - 1 \in 1 .. Len(t) /\ (k - 1) + 1 = k
      BY <1>1, <2>2
    <3>2. Heard(p[(k - 1) - 1], t[k - 1], p[k - 1])
      BY <1>3, <3>1 DEF Along
    <3>3. q[k - 1] = p[(k - 1) - 1] /\ q[k] = p[k - 1] /\ m[k] = t[k - 1]
      BY <1>1, <1>2, <2>2, <3>1
    <3> QED BY <3>2, <3>3
  <2> QED BY <2>1, <2>2
<1>4. ASSUME NEW n \in 1 .. Len(t), Along(t, p, n - 1), t[n].head = "ATCmd"
      PROVE  Fit(p[n - 1], t[n].line.at)
  <2>1. Along(m, q, (n + 1) - 1) /\ n + 1 \in 1 .. Len(m) /\ m[n + 1] = t[n]
    BY <1>1, <1>3, <1>4
  <2>2. q[(n + 1) - 1] = p[n - 1]
    BY <1>1, <1>2
  <2>3. Fit(q[(n + 1) - 1], m[n + 1].line.at)
    BY <1>2, <1>4, <2>1 DEF MailFit
  <2> QED BY <2>1, <2>2, <2>3
<1>5. ASSUME Along(t, p, Len(t)) PROVE WireFit(p[Len(t)], w, E)
  <2>1. Along(m, q, Len(m))
    BY <1>1, <1>3, <1>5
  <2>2. q[Len(m)] = p[Len(t)]
    BY <1>1, <1>2
  <2> QED BY <1>2, <2>1, <2>2 DEF MailFit
<1> QED BY <1>4, <1>5

(* ... and itself it fits.                                                 *)
LEMMA MailFits ==
  ASSUME NEW c \in Ctx, NEW m \in Seq(Message), m # << >>, NEW w, NEW E,
         Head(m).head = "ATCmd", MailFit(c, m, w, E)
  PROVE  Fit(c, Head(m).line.at)
<1> DEFINE p == [k \in Nat |-> c]
<1>1. p \in Paths /\ p[0] = c /\ p[1 - 1] = c
  BY DEF Paths
<1>2. 1 \in 1 .. Len(m) /\ m[1] = Head(m)
  BY HeadTailProperties
<1>3. Along(m, p, 1 - 1)
  BY DEF Along
<1> HIDE DEF p
<1> QED BY <1>1, <1>2, <1>3 DEF MailFit

(* A message that is no line changes no path.                              *)
LEMMA MailMore ==
  ASSUME NEW c \in Ctx, NEW m \in Seq(Message), NEW x, x.head # "ATCmd", NEW w, NEW E,
         MailFit(c, m, w, E)
  PROVE  MailFit(c, Append(m, x), w, E)
<1> DEFINE t == Append(m, x)
<1>1. Len(t) = Len(m) + 1 /\ Len(m) \in Nat /\ t[Len(m) + 1] = x
      /\ \A k \in 1 .. Len(m) : t[k] = m[k]
  OBVIOUS
<1> SUFFICES ASSUME NEW p \in Paths, p[0] = c
    PROVE  /\ \A n \in 1 .. Len(t) :
                Along(t, p, n - 1) /\ t[n].head = "ATCmd" => Fit(p[n - 1], t[n].line.at)
           /\ Along(t, p, Len(t)) => WireFit(p[Len(t)], w, E)
  BY Zenon DEF MailFit
<1> HIDE DEF t
<1>2. ASSUME NEW n \in 0 .. Len(m), Along(t, p, n) PROVE Along(m, p, n)
  <2> SUFFICES ASSUME NEW k \in 1 .. n PROVE Heard(p[k - 1], m[k], p[k])
    BY DEF Along
  <2>1. k \in 1 .. Len(m) /\ Heard(p[k - 1], t[k], p[k])
    BY <1>1, <1>2 DEF Along
  <2>2. t[k] = m[k]
    BY <1>1, <2>1
  <2> QED BY <2>1, <2>2
<1>3. ASSUME NEW n \in 1 .. Len(t), Along(t, p, n - 1), t[n].head = "ATCmd"
      PROVE  Fit(p[n - 1], t[n].line.at)
  <2>1. n \in 1 .. Len(m) /\ t[n] = m[n]
    BY <1>1, <1>3
  <2>2. Along(m, p, n - 1)
    BY <1>2, <1>3, <2>1
  <2> QED BY <1>3, <2>1, <2>2 DEF MailFit
<1>4. ASSUME Along(t, p, Len(t)) PROVE WireFit(p[Len(t)], w, E)
  <2>1. Along(t, p, Len(m)) /\ Heard(p[(Len(m) + 1) - 1], t[Len(m) + 1], p[Len(m) + 1])
    BY <1>1, <1>4 DEF Along
  <2>2. p[Len(t)] = p[Len(m)]
    BY <1>1, <2>1 DEF Heard
  <2>3. Along(m, p, Len(m))
    BY <1>1, <1>2, <2>1
  <2>4. WireFit(p[Len(m)], w, E)
    BY <2>3 DEF MailFit
  <2> QED BY <2>2, <2>4
<1> QED BY <1>3, <1>4

(* The first line of the wire fits, and the others do from where it leads. *)
LEMMA WireHead ==
  ASSUME NEW d \in Ctx, NEW w \in Seq(Line), w # << >>, NEW E, WireFit(d, w, E)
  PROVE  /\ Fit(d, Head(w).at)
         /\ \A d2 \in Ctx : Takes(d, Head(w).at, d2) => WireFit(d2, Tail(w), E)
<1> DEFINE t == Tail(w)
<1>1. Len(t) = Len(w) - 1 /\ Len(w) \in Nat /\ Len(w) > 0 /\ w[1] = Head(w)
      /\ \A k \in 1 .. Len(t) : t[k] = w[k + 1]
  BY HeadTailProperties
<1>2. Fit(d, Head(w).at)
  <2> DEFINE q == [k \in Nat |-> d]
  <2>1. q \in Paths /\ q[0] = d /\ q[1 - 1] = d
    BY DEF Paths
  <2>2. Speaks(w, q, 1 - 1)
    BY DEF Speaks
  <2> HIDE DEF q
  <2>3. 1 \in 1 .. Len(w)
    BY <1>1
  <2> QED BY <1>1, <2>1, <2>2, <2>3 DEF WireFit
<1>3. ASSUME NEW d2 \in Ctx, Takes(d, Head(w).at, d2) PROVE WireFit(d2, t, E)
  <2> SUFFICES ASSUME NEW p \in Paths, p[0] = d2
      PROVE  /\ \A n \in 1 .. Len(t) : Speaks(t, p, n - 1) => Fit(p[n - 1], t[n].at)
             /\ Speaks(t, p, Len(t)) => p[Len(t)] \in E
    BY Zenon DEF WireFit
  <2> HIDE DEF t
  <2> DEFINE q == [k \in Nat |-> IF k = 0 THEN d ELSE p[k - 1]]
  <2>2. q \in Paths /\ q[0] = d /\ \A k \in Nat : k > 0 => q[k] = p[k - 1]
    BY DEF Paths
  <2> HIDE DEF q
  <2>3. ASSUME NEW n \in 0 .. Len(t), Speaks(t, p, n) PROVE Speaks(w, q, n + 1)
    <3> SUFFICES ASSUME NEW k \in 1 .. n + 1 PROVE Takes(q[k - 1], w[k].at, q[k])
      BY DEF Speaks
    <3>1. CASE k = 1
      <4>1. q[k - 1] = d /\ w[k] = Head(w) /\ q[k] = d2
        BY <1>1, <2>2, <3>1
      <4> QED BY <1>3, <4>1
    <3>2. CASE k > 1
      <4>1. k - 1 \in 1 .. n /\ k - 1 \in 1 .. Len(t) /\ (k - 1) + 1 = k
        BY <1>1, <3>2
      <4>2. Takes(p[(k - 1) - 1], t[k - 1].at, p[k - 1])
        BY <2>3, <4>1 DEF Speaks
      <4>3. q[k - 1] = p[(k - 1) - 1] /\ q[k] = p[k - 1] /\ w[k] = t[k - 1]
        BY <1>1, <2>2, <3>2, <4>1
      <4> QED BY <4>2, <4>3
    <3> QED BY <3>1, <3>2
  <2>4. ASSUME NEW n \in 1 .. Len(t), Speaks(t, p, n - 1)
        PROVE  Fit(p[n - 1], t[n].at)
    <3>1. Speaks(w, q, (n + 1) - 1) /\ n + 1 \in 1 .. Len(w) /\ w[n + 1] = t[n]
      BY <1>1, <2>3, <2>4
    <3>2. q[(n + 1) - 1] = p[n - 1]
      BY <1>1, <2>2
    <3>3. Fit(q[(n + 1) - 1], w[n + 1].at)
      BY <2>2, <3>1 DEF WireFit
    <3> QED BY <3>1, <3>2, <3>3
  <2>5. ASSUME Speaks(t, p, Len(t)) PROVE p[Len(t)] \in E
    <3>1. Speaks(w, q, Len(w))
      BY <1>1, <2>3, <2>5
    <3>2. q[Len(w)] = p[Len(t)]
      BY <1>1, <2>2
    <3> QED BY <2>2, <3>1, <3>2 DEF WireFit
  <2> QED BY <2>4, <2>5
<1> QED BY <1>2, <1>3

(* A line that comes in is met behind the messages that wait.              *)
LEMMA LineIn ==
  ASSUME NEW c \in Ctx, NEW m \in Seq(Message), NEW w \in Seq(Line), w # << >>, NEW E,
         MailFit(c, m, w, E)
  PROVE  MailFit(c, Append(m, [head |-> "ATCmd", line |-> Head(w)]), Tail(w), E)
<1> DEFINE x == [head |-> "ATCmd", line |-> Head(w)]
           t == Append(m, x)
<1>1. Len(t) = Len(m) + 1 /\ Len(m) \in Nat /\ t[Len(m) + 1] = x
      /\ \A k \in 1 .. Len(m) : t[k] = m[k]
  OBVIOUS
<1>2. x.head = "ATCmd" /\ x.line = Head(w)
  OBVIOUS
<1> SUFFICES ASSUME NEW p \in Paths, p[0] = c
    PROVE  /\ \A n \in 1 .. Len(t) :
                Along(t, p, n - 1) /\ t[n].head = "ATCmd" => Fit(p[n - 1], t[n].line.at)
           /\ Along(t, p, Len(t)) => WireFit(p[Len(t)], Tail(w), E)
  BY Zenon DEF MailFit
<1> HIDE DEF t, x
<1>3. ASSUME NEW n \in 0 .. Len(m), Along(t, p, n) PROVE Along(m, p, n)
  <2> SUFFICES ASSUME NEW k \in 1 .. n PROVE Heard(p[k - 1], m[k], p[k])
    BY DEF Along
  <2>1. k \in 1 .. Len(m) /\ Heard(p[k - 1], t[k], p[k])
    BY <1>1, <1>3 DEF Along
  <2>2. t[k] = m[k]
    BY <1>1, <2>1
  <2> QED BY <2>1, <2>2
<1>4. ASSUME Along(t, p, Len(m))
      PROVE  /\ p[Len(m)] \in Ctx /\ p[Len(m) + 1] \in Ctx /\ Fit(p[Len(m)], x.line.at)
             /\ \A d2 \in Ctx : Takes(p[Len(m)], x.line.at, d2) => WireFit(d2, Tail(w), E)
  <2>1. Along(m, p, Len(m))
    BY <1>1, <1>3, <1>4
  <2>2. WireFit(p[Len(m)], w, E)
    BY <2>1 DEF MailFit
  <2>3. p[Len(m)] \in Ctx /\ p[Len(m) + 1] \in Ctx
    BY <1>1 DEF Paths
  <2> QED BY <1>2, <2>2, <2>3, WireHead
<1>5. ASSUME NEW n \in 1 .. Len(t), Along(t, p, n - 1), t[n].head = "ATCmd"
      PROVE  Fit(p[n - 1], t[n].line.at)
  <2>1. CASE n \in 1 .. Len(m)
    <3>1. t[n] = m[n] /\ Along(m, p, n - 1)
      BY <1>1, <1>3, <1>5, <2>1
    <3> QED BY <1>5, <2>1, <3>1 DEF MailFit
  <2>2. CASE n = Len(m) + 1
    <3>1. n - 1 = Len(m) /\ t[n] = x
      BY <1>1, <2>2
    <3> QED BY <1>4, <1>5, <3>1
  <2> QED BY <1>1, <1>5, <2>1, <2>2
<1>6. ASSUME Along(t, p, Len(t)) PROVE WireFit(p[Len(t)], Tail(w), E)
  <2>1. Along(t, p, Len(m)) /\ Heard(p[(Len(m) + 1) - 1], t[Len(m) + 1], p[Len(m) + 1])
    BY <1>1, <1>6 DEF Along
  <2>2. Takes(p[Len(m)], x.line.at, p[Len(m) + 1])
    BY <1>1, <1>2, <2>1 DEF Heard
  <2> QED BY <1>1, <1>4, <2>1, <2>2
<1> QED BY <1>5, <1>6

(* What the module says next is met where its last words lead.             *)
Beyond(E, at) == {d \in Ctx : \E c \in E : Takes(c, at, d)}

(* A line more on the wire leads every path one step on.                   *)
LEMMA WireMore ==
  ASSUME NEW d \in Ctx, NEW w \in Seq(Line), NEW E \in SUBSET Ctx, NEW x,
         WireFit(d, w, E), \A c \in E : Fit(c, x.at)
  PROVE  WireFit(d, Append(w, x), Beyond(E, x.at))
<1> DEFINE t == Append(w, x)
<1>1. Len(t) = Len(w) + 1 /\ Len(w) \in Nat /\ t[Len(w) + 1] = x
      /\ \A k \in 1 .. Len(w) : t[k] = w[k]
  OBVIOUS
<1> SUFFICES ASSUME NEW p \in Paths, p[0] = d
    PROVE  /\ \A n \in 1 .. Len(t) : Speaks(t, p, n - 1) => Fit(p[n - 1], t[n].at)
           /\ Speaks(t, p, Len(t)) => p[Len(t)] \in Beyond(E, x.at)
  BY Zenon DEF WireFit
<1> HIDE DEF t
<1>3. ASSUME NEW n \in 0 .. Len(w), Speaks(t, p, n) PROVE Speaks(w, p, n)
  BY <1>1, <1>3 DEF Speaks
<1>4. ASSUME Speaks(t, p, Len(w)) PROVE p[Len(w)] \in E
  <2>1. Speaks(w, p, Len(w))
    BY <1>1, <1>3, <1>4
  <2> QED BY <2>1 DEF WireFit
<1>5. ASSUME NEW n \in 1 .. Len(t), Speaks(t, p, n - 1)
      PROVE  Fit(p[n - 1], t[n].at)
  <2>1. CASE n \in 1 .. Len(w)
    <3>1. t[n] = w[n] /\ Speaks(w, p, n - 1)
      BY <1>1, <1>3, <1>5, <2>1
    <3> QED BY <1>5, <2>1, <3>1 DEF WireFit
  <2>2. CASE n = Len(w) + 1
    <3>1. n - 1 = Len(w) /\ t[n] = x
      BY <1>1, <2>2
    <3> QED BY <1>4, <1>5, <3>1
  <2> QED BY <1>1, <1>5, <2>1, <2>2
<1>6. ASSUME Speaks(t, p, Len(t)) PROVE p[Len(t)] \in Beyond(E, x.at)
  <2>1. Speaks(t, p, Len(w)) /\ Takes(p[(Len(w) + 1) - 1], t[Len(w) + 1].at, p[Len(w) + 1])
    BY <1>1, <1>6 DEF Speaks
  <2>2. Takes(p[Len(w)], x.at, p[Len(w) + 1])
    BY <1>1, <2>1
  <2>3. p[Len(w)] \in E /\ p[Len(w) + 1] \in Ctx
    BY <1>1, <1>4, <2>1 DEF Paths
  <2> QED BY <1>1, <2>2, <2>3 DEF Beyond
<1> QED BY <1>5, <1>6

(* Both are the weaker, the more may be known in the end.                  *)
LEMMA WireWeaker ==
  ASSUME NEW d, NEW w, NEW E, NEW F, E \subseteq F, WireFit(d, w, E)
  PROVE  WireFit(d, w, F)
BY DEF WireFit

(* Only the wire has changed.                                              *)
LEMMA MailWire ==
  ASSUME NEW c \in Ctx, NEW m \in Seq(Message), NEW w, NEW v, NEW E, NEW F,
         \A d \in Ctx : WireFit(d, w, E) => WireFit(d, v, F),
         MailFit(c, m, w, E)
  PROVE  MailFit(c, m, v, F)
<1>1. ASSUME NEW p \in Paths PROVE p[Len(m)] \in Ctx
  BY DEF Paths
<1> QED BY <1>1 DEF MailFit

-----------------------------------------------------------------------------
(* What is announced and what makes it true.  A rule says which messages   *)
(* are due a condition (due), which end it (ends) and which bring it about *)
(* (makes), of which values of a variable it holds (holds), and in which   *)
(* contexts the AT command processor goes by it (known).                   *)

(* Whoever reads message k finds that the condition holds, since it held   *)
(* from the beginning or what ended it was followed by what makes it true. *)
Answered(r, m, k, v) ==
  /\ \A i \in 1 .. k - 1 : m[i] \in r.ends => \E j \in i + 1 .. k - 1 : m[j] \in r.makes
  /\ v \in r.holds \/ \E j \in 1 .. k - 1 : m[j] \in r.makes

Chain(r, m, v, c) ==
  /\ \A k \in 1 .. Len(m) : m[k] \in r.due => Answered(r, m, k, v)
  /\ c \in r.known => Answered(r, m, Len(m) + 1, v)

(* The message that is due it finds it true.                               *)
LEMMA ChainHead ==
  ASSUME NEW r, NEW m \in Seq(Message), m # << >>, NEW v, NEW c, Chain(r, m, v, c),
         Head(m) \in r.due
  PROVE  v \in r.holds
<1>1. 1 \in 1 .. Len(m) /\ m[1] = Head(m)
  BY HeadTailProperties
<1>2. Answered(r, m, 1, v)
  BY <1>1 DEF Chain
<1> QED BY <1>2 DEF Answered

(* A message is worked off.                                                *)
LEMMA ChainTail ==
  ASSUME NEW r, NEW m \in Seq(Message), m # << >>, NEW v, NEW c, Chain(r, m, v, c),
         NEW u, Head(m) \in r.makes => u \in r.holds,
         v \in r.holds /\ Head(m) \notin r.ends => u \in r.holds
  PROVE  Chain(r, Tail(m), u, c)
<1> DEFINE t == Tail(m)
<1>1. Len(t) = Len(m) - 1 /\ Len(m) \in Nat /\ Len(m) > 0 /\ m[1] = Head(m)
      /\ \A k \in 1 .. Len(t) : t[k] = m[k + 1]
  BY HeadTailProperties
<1> HIDE DEF t
<1>2. ASSUME NEW k \in 1 .. Len(t) + 1, Answered(r, m, k + 1, v) PROVE Answered(r, t, k, u)
  <2>1. ASSUME NEW i \in 1 .. k - 1, t[i] \in r.ends
        PROVE  \E j \in i + 1 .. k - 1 : t[j] \in r.makes
    <3>1. i + 1 \in 1 .. (k + 1) - 1 /\ m[i + 1] \in r.ends
      BY <1>1, <2>1
    <3>2. PICK j \in (i + 1) + 1 .. (k + 1) - 1 : m[j] \in r.makes
      BY <1>2, <3>1 DEF Answered
    <3>3. j - 1 \in i + 1 .. k - 1 /\ j - 1 \in 1 .. Len(t) /\ (j - 1) + 1 = j
      BY <1>1, <3>2
    <3>4. t[j - 1] = m[j]
      BY <1>1, <3>3
    <3> QED BY <3>2, <3>3, <3>4
  <2>2. ASSUME u \notin r.holds PROVE \E j \in 1 .. k - 1 : t[j] \in r.makes
    <3>1. m[1] \notin r.makes /\ (v \notin r.holds \/ m[1] \in r.ends)
      BY <1>1, <2>2
    <3>2. CASE m[1] \in r.ends
      <4>1. 1 \in 1 .. (k + 1) - 1
        OBVIOUS
      <4>2. PICK j \in 1 + 1 .. (k + 1) - 1 : m[j] \in r.makes
        BY <1>2, <3>2, <4>1 DEF Answered
      <4>3. j - 1 \in 1 .. k - 1 /\ j - 1 \in 1 .. Len(t) /\ (j - 1) + 1 = j
        BY <1>1, <4>2
      <4>4. t[j - 1] = m[j]
        BY <1>1, <4>3
      <4> QED BY <4>2, <4>3, <4>4
    <3>3. CASE v \notin r.holds
      <4>1. PICK j \in 1 .. (k + 1) - 1 : m[j] \in r.makes
        BY <1>2, <3>3 DEF Answered
      <4>2. j # 1
        BY <3>1, <4>1
      <4>3. j - 1 \in 1 .. k - 1 /\ j - 1 \in 1 .. Len(t) /\ (j - 1) + 1 = j
        BY <1>1, <4>1, <4>2
      <4>4. t[j - 1] = m[j]
        BY <1>1, <4>3
      <4> QED BY <4>1, <4>3, <4>4
    <3> QED BY <3>1, <3>2, <3>3
  <2> QED BY <2>1, <2>2 DEF Answered
<1>3. ASSUME NEW k \in 1 .. Len(t), t[k] \in r.due PROVE Answered(r, t, k, u)
  <2>1. k + 1 \in 1 .. Len(m) /\ m[k + 1] \in r.due /\ k \in 1 .. Len(t) + 1
    BY <1>1, <1>3
  <2>2. Answered(r, m, k + 1, v)
    BY <2>1 DEF Chain
  <2> QED BY <1>2, <2>1, <2>2
<1>4. ASSUME c \in r.known PROVE Answered(r, t, Len(t) + 1, u)
  <2>1. Answered(r, m, Len(m) + 1, v) /\ Len(m) + 1 = (Len(t) + 1) + 1
        /\ Len(t) + 1 \in 1 .. Len(t) + 1
    BY <1>1, <1>4 DEF Chain
  <2> QED BY <1>2, <2>1
<1>5. Chain(r, t, u, c)
  BY <1>3, <1>4 DEF Chain
<1> QED BY <1>5 DEF t

(* A message is posted.                                                    *)
LEMMA ChainPost ==
  ASSUME NEW r, NEW m \in Seq(Message), NEW v, NEW c, Chain(r, m, v, c), NEW x,
         x \in r.due => c \in r.known,
         NEW d, d \in r.known => x \notin r.ends /\ (x \in r.makes \/ c \in r.known)
  PROVE  Chain(r, Append(m, x), v, d)
<1> DEFINE t == Append(m, x)
<1>1. Len(t) = Len(m) + 1 /\ Len(m) \in Nat /\ t[Len(m) + 1] = x
      /\ \A k \in 1 .. Len(m) : t[k] = m[k]
  OBVIOUS
<1> HIDE DEF t
<1>2. ASSUME NEW k \in 1 .. Len(m) + 1, Answered(r, m, k, v) PROVE Answered(r, t, k, v)
  <2>1. \A i \in 1 .. k - 1 : t[i] = m[i]
    BY <1>1
  <2> QED BY <1>2, <2>1 DEF Answered
<1>3. ASSUME NEW k \in 1 .. Len(t), t[k] \in r.due PROVE Answered(r, t, k, v)
  <2>1. CASE k = Len(m) + 1
    <3>1. c \in r.known
      BY <1>1, <1>3, <2>1
    <3>2. Answered(r, m, k, v)
      BY <2>1, <3>1 DEF Chain
    <3> QED BY <1>1, <1>2, <2>1, <3>2
  <2>2. CASE k \in 1 .. Len(m)
    <3>1. m[k] \in r.due
      BY <1>1, <1>3, <2>2
    <3>2. Answered(r, m, k, v)
      BY <2>2, <3>1 DEF Chain
    <3> QED BY <1>2, <2>2, <3>2
  <2> QED BY <1>1, <2>1, <2>2
<1>4. ASSUME d \in r.known PROVE Answered(r, t, Len(t) + 1, v)
  <2> DEFINE n == Len(m) + 1
  <2>0. n \in 1 .. (Len(t) + 1) - 1 /\ (Len(t) + 1) - 1 = n /\ t[n] = x /\ n \in Nat
    BY <1>1
  <2>1. CASE x \in r.makes
    <3>1. \A i \in 1 .. (Len(t) + 1) - 1 : i < n \/ i = n
      BY <2>0
    <3>2. ASSUME NEW i \in 1 .. (Len(t) + 1) - 1, t[i] \in r.ends
          PROVE  \E j \in i + 1 .. (Len(t) + 1) - 1 : t[j] \in r.makes
      <4>1. CASE i < n
        <5>1. n \in i + 1 .. (Len(t) + 1) - 1
          BY <2>0, <4>1
        <5> QED BY <2>0, <2>1, <5>1
      <4>2. CASE i = n
        BY <1>4, <2>0, <3>2, <4>2
      <4> QED BY <3>1, <4>1, <4>2
    <3> QED BY <2>0, <2>1, <3>2 DEF Answered
  <2>2. CASE c \in r.known
    <3>1. Answered(r, m, n, v)
      BY <2>2 DEF Chain
    <3>2. ASSUME NEW i \in 1 .. (Len(t) + 1) - 1, t[i] \in r.ends
          PROVE  \E j \in i + 1 .. (Len(t) + 1) - 1 : t[j] \in r.makes
      <4>1. i \in 1 .. n - 1 /\ m[i] \in r.ends
        BY <1>1, <1>4, <2>0, <3>2
      <4>2. PICK j \in i + 1 .. n - 1 : m[j] \in r.makes
        BY <3>1, <4>1 DEF Answered
      <4>3. j \in 1 .. Len(m) /\ j \in i + 1 .. (Len(t) + 1) - 1
        BY <1>1, <2>0, <4>2
      <4> QED BY <1>1, <4>2, <4>3
    <3>3. v \in r.holds \/ \E j \in 1 .. (Len(t) + 1) - 1 : t[j] \in r.makes
      <4>1. v \in r.holds \/ \E j \in 1 .. n - 1 : m[j] \in r.makes
        BY <3>1 DEF Answered
      <4>2. \A j \in 1 .. n - 1 : j \in 1 .. (Len(t) + 1) - 1 /\ t[j] = m[j]
        BY <1>1, <2>0
      <4> QED BY <4>1, <4>2
    <3> QED BY <3>2, <3>3 DEF Answered
  <2> QED BY <1>4, <2>1, <2>2
<1>5. Chain(r, t, v, d)
  BY <1>3, <1>4 DEF Chain
<1> QED BY <1>5 DEF t

(* Nothing is posted, but more may hold and less be known.                 *)
LEMMA ChainSame ==
  ASSUME NEW r, NEW m, NEW v, NEW c, Chain(r, m, v, c), NEW u, v \in r.holds => u \in r.holds,
         NEW d, d \in r.known => c \in r.known
  PROVE  Chain(r, m, u, d)
BY DEF Chain, Answered

-----------------------------------------------------------------------------
(* What the handlers leave of the two structs, of the current state and of *)
(* the wish for a socket.                                                  *)

Alike(s, t) == s.sckt = t.sckt /\ s.conn = t.conn /\ s.dev = t.dev

Keeps(h, g) ==
  /\ g \in HciType
  /\ g.pSocketInitStruct = h.pSocketInitStruct /\ g.pConnInitStruct = h.pConnInitStruct
  /\ Alike(h.curState, g.curState)

(* ... which does not arise by itself.                                     *)
Calm(h, g) ==
  /\ Keeps(h, g)
  /\ g.tarState = Online => h.tarState = Online
  /\ g.tarState = Online /\ "CheckHciWiFiState" \in g.events => "CheckHciWiFiState" \in h.events

(* Calm calls may follow each other.                                       *)
LEMMA CalmOn ==
  ASSUME NEW h, NEW g, NEW f
  PROVE  /\ Keeps(h, g) /\ Keeps(g, f) => Keeps(h, f)
         /\ Calm(h, g) /\ Calm(g, f) => Calm(h, f)
BY DEF Keeps, Calm, Alike

(* No call at all is calm.                                                 *)
LEMMA SameCalm == \A h \in HciType : Calm(h, h)
BY DEF Calm, Keeps, Alike

(* The targets are told apart.                                             *)
LEMMA TargetsDiffer ==
  /\ Alone \notin {Online, Joined} /\ Joined # Online /\ Pairing # Online /\ Zero # Online
  /\ Zero # Joined /\ Stopped # Joined
  /\ {Alone, Joined, Pairing, Online, Stopped, Zero} \subseteq State
BY DEF Alone, Joined, Pairing, Online, Zero, Stopped, Ready, HCI_WIFI_STATE, State,
     Sckts, Conns, Devs

(* No target but Online is a wish for a socket.                            *)
LEMMA TargetCalm ==
  ASSUME NEW h \in HciType, NEW s \in {Alone, Joined, Pairing}
  PROVE  Calm(h, Target(h, s))
<1>1. s \in {Zero, Alone, Joined, Pairing, Online} /\ s # Online
  BY TargetsDiffer
<1> QED
  BY <1>1 DEF Calm, Keeps, Alike, Target, HciType, HciFlags

(* Sending leaves the structs and the state alone, ...                     *)
LEMMA SendCalm ==
  ASSUME NEW h \in HciType, NEW unit \in Units
  PROVE  Calm(h, HciWiFiSocketSend(h, unit))
<1> DEFINE fifo == Append(h.scktTxFIFO, unit)
           flags == h.events \cup {"TxPoll"}
<1>1. fifo \in Seq({"GET", "text", "close"}) /\ flags \in SUBSET HciFlags
  BY DEF HciType, Units, HciFlags
<1>2. "CheckHciWiFiState" \in flags <=> "CheckHciWiFiState" \in h.events
  OBVIOUS
<1> HIDE DEF fifo, flags
<1>3. Calm(h, [h EXCEPT !.scktTxFIFO = fifo, !.events = flags])
  BY <1>1, <1>2 DEF Calm, Keeps, Alike, HciType
<1>4. HciWiFiSocketSend(h, unit) \in {h, [h EXCEPT !.scktTxFIFO = fifo, !.events = flags]}
  BY Zenon DEF HciWiFiSocketSend, fifo, flags
<1> QED BY <1>3, <1>4, SameCalm, Zenon

(* ... so does asking for a pairing, ...                                   *)
LEMMA PairCalm ==
  ASSUME NEW h \in HciType
  PROVE  Calm(h, HciWiFiPairingStart(h))
<1> DEFINE g == [h EXCEPT !.pPairingInitStruct = {"Allocated", "Success", "Failure"}]
<1>1. g \in HciType /\ Calm(h, g)
  BY DEF Calm, Keeps, Alike, HciType
<1> HIDE DEF g
<1>2. Calm(g, Target(g, Pairing))
  BY <1>1, TargetCalm
<1>3. Calm(h, Target(g, Pairing))
  BY <1>1, <1>2, CalmOn, Zenon
<1> QED BY <1>3, Zenon DEF HciWiFiPairingStart, g

(* ... and so do all the calls of the websocket and its callbacks.         *)
LEMMA CallsCalm ==
  ASSUME NEW h \in HciType, NEW data
  PROVE  /\ Calm(h, Handshake(h)) /\ Calm(h, WebSocketSend(h))
         /\ Calm(h, WebSocketClose(h)) /\ Calm(h, OnWebSocketRxData(h, data))
         /\ Calm(h, ThenPair(h)) /\ Calm(h, HciWiFiSocketClose(h))
<1>1. \A u \in Units : Calm(h, HciWiFiSocketSend(h, u))
  BY SendCalm
<1>2. Calm(h, Handshake(h)) /\ Calm(h, WebSocketSend(h)) /\ Calm(h, WebSocketClose(h))
  BY <1>1, SameCalm, Zenon DEF Handshake, WebSocketSend, WebSocketClose, Units
<1>3. Calm(h, OnWebSocketRxData(h, data))
  BY <1>2, Zenon DEF OnWebSocketRxData
<1>4. Calm(h, ThenPair(h))
  BY PairCalm, SameCalm, Zenon DEF ThenPair
<1>5. Calm(h, HciWiFiSocketClose(h))
  BY TargetCalm, Zenon DEF HciWiFiSocketClose
<1> QED BY <1>2, <1>3, <1>4, <1>5

(* The end of the state handler only changes the target and its flag.      *)
LEMMA CheckKeeps ==
  ASSUME NEW h \in HciType
  PROVE  Keeps(h, CheckTarget(h))
<1>1. CASE h.curState = h.tarState
  <2> DEFINE g == [h EXCEPT !.tarState = Zero, !.events = @ \ {"CheckHciWiFiState"}]
  <2>1. Keeps(h, g)
    BY DEF Keeps, Alike, HciType
  <2> QED BY <1>1, <2>1, Zenon DEF CheckTarget
<1>2. CASE h.curState # h.tarState /\ h.tarState # Zero /\ h.curState # Zero
  <2> DEFINE g == [h EXCEPT !.events = @ \cup {"CheckHciWiFiState"}]
  <2>1. Keeps(h, g)
    BY DEF Keeps, Alike, HciType, HciFlags
  <2> QED BY <1>2, <2>1, Zenon DEF CheckTarget
<1>3. CASE h.curState # h.tarState /\ ~(h.tarState # Zero /\ h.curState # Zero)
  BY <1>3, SameCalm, Zenon DEF CheckTarget, Calm
<1> QED BY <1>1, <1>2, <1>3

(* What becomes of the structs when state s is posted, apart from those    *)
(* that change them.                                                       *)
Passing(s) ==
  s \notin {Alone, Joined} /\ s.sckt # "Opened" /\ ~(s.sckt = "Closed" /\ s.conn = "GotIP")

Undisturbed(s) ==
  /\ Passing(s)
  /\ hci'.pSocketInitStruct = hci.pSocketInitStruct /\ hci'.pConnInitStruct = hci.pConnInitStruct
  /\ Alike(hci'.curState, s) \/ Alike(hci'.curState, Zero)
  /\ UNCHANGED wsState

Lost(s) ==
  /\ s = Alone
  /\ hci'.pSocketInitStruct = "NULL" /\ hci'.pConnInitStruct = "NULL"
  /\ Alike(hci'.curState, s)
  /\ wsState' = IF NoSocket THEN wsState ELSE "Closed"

Made(s) ==
  /\ s = Joined
  /\ hci'.pSocketInitStruct = "NULL"
  /\ hci'.pConnInitStruct = IF HasConn THEN "Connected" ELSE "NULL"
  /\ Alike(hci'.curState, s)
  /\ wsState' = IF NoSocket THEN wsState ELSE "Closed"

OpenedUp(s) ==
  /\ s = Online /\ ~NoSocket
  /\ hci'.pSocketInitStruct = "Opened" /\ hci'.pConnInitStruct = hci.pConnInitStruct
  /\ Alike(hci'.curState, s)
  /\ wsState' = IF hci.pSocketInitStruct = "Opening" THEN "Handshaking" ELSE wsState

(* Freeing the socket frees its struct and nothing else of these.          *)
LEMMA FreedSocket ==
  ASSUME hci \in HciType, NEW h \in HciType,
         h.pSocketInitStruct = hci.pSocketInitStruct
  PROVE  /\ FreeSocket(h) \in HciType /\ FreeSocket(h).pSocketInitStruct = "NULL"
         /\ FreeSocket(h).pConnInitStruct = h.pConnInitStruct
         /\ Alike(FreeSocket(h).curState, h.curState)
<1> DEFINE g == [h EXCEPT !.pSocketInitStruct = "NULL"]
<1>1. /\ g \in HciType /\ g.pSocketInitStruct = "NULL"
      /\ g.pConnInitStruct = h.pConnInitStruct /\ g.curState = h.curState
  BY DEF HciType
<1> HIDE DEF g
<1>2. Keeps(g, ThenPair(g))
  BY <1>1, CallsCalm, Zenon DEF Calm
<1>3. CASE NoSocket
  <2>1. FreeSocket(h) = h
    BY <1>3, Zenon DEF FreeSocket
  <2> QED BY <1>3, <2>1 DEF NoSocket, Alike
<1>4. CASE ~NoSocket
  <2>1. FreeSocket(h) = ThenPair(g)
    BY <1>4, Zenon DEF FreeSocket, g
  <2> QED BY <1>1, <1>2, <2>1 DEF Keeps, Alike
<1> QED BY <1>3, <1>4

(* Posted states that are known by their parts.                            *)
LEMMA StateParts ==
  /\ \A s, c : Ready(s, c).sckt = s /\ Ready(s, c).conn = c /\ Ready(s, c).dev = "Initialized"
  /\ Alone = Ready("Closed", "Disconnected") /\ Joined = Ready("Closed", "GotIP")
  /\ Online = Ready("Opened", "GotIP") /\ Stopped = Ready("Closed", "PairingStopped")
  /\ Initializing.sckt = "Closed" /\ Initializing.conn = "Disconnected"
  /\ Initializing.dev = "Initializing"
  /\ Zero.sckt = "Closed" /\ Zero.conn = "Disconnected" /\ Zero.dev = "Off"
BY DEF Ready, Alone, Joined, Online, Stopped, Initializing, Zero, HCI_WIFI_STATE

(* A connection that is being made is one that was asked for.              *)
LEMMA AskedFor ==
  ASSUME NEW s \in State, s.conn = "Connecting", FailedByState(s) = {}
  PROVE  HasConn
<1>1. \A l, ok : Failing(l, ok) = {} => ok
  BY DEF Failing
<1>2. CASE s = Ready("Closed", "Connecting")
  <2>1. FailedByState(s) = Failing(538, HasConn) \cup Failing(539, NoSocket) \cup Failing(540, NoTx)
    <3>1. s # Initializing /\ \A k, c : k # "Closed" \/ c # "Connecting" => s # Ready(k, c)
      BY <1>2, StateParts
    <3> QED BY <1>2, <3>1 DEF FailedByState, Pairing, Stopped, Joined, Alone, Online
  <2>2. Failing(538, HasConn) = {}
    BY <2>1
  <2> QED BY <2>2 DEF Failing
<1>3. CASE s # Ready("Closed", "Connecting")
  <2>1. FailedByState(s) = {876}
    BY <1>3, StateParts DEF FailedByState, Pairing
  <2> QED BY <2>1
<1> QED BY <1>2, <1>3

(* What a posted state that meets its assertions does.                     *)
LEMMA PostEffect ==
  ASSUME hci \in HciType, NEW s \in State, FailedByState(s) = {}, ProcessHciState(s)
  PROVE  Undisturbed(s) \/ Lost(s) \/ Made(s) \/ OpenedUp(s)
<1> DEFINE h == [hci EXCEPT !.curState = s]
<1>1. /\ h \in HciType /\ h.curState = s
      /\ h.pSocketInitStruct = hci.pSocketInitStruct
      /\ h.pConnInitStruct = hci.pConnInitStruct
  BY DEF HciType, State
<1>2. \/ StateReported(h) \/ StateInitializing(h) \/ StateDisconnected(h)
      \/ StateOpened(h) \/ StateJoined(h) \/ StateClosing(h)
      \/ StatePaired(h) \/ StatePairingStopped(h)
  BY Zenon DEF ProcessHciState
<1>3. Zero \in State
  BY States
<1> HIDE DEF h
<1>4. ASSUME Passing(s), UNCHANGED wsState, NEW g \in HciType,
             g.pSocketInitStruct = h.pSocketInitStruct, g.pConnInitStruct = h.pConnInitStruct,
             g.curState \in {s, Zero}, hci' = CheckTarget(g)
      PROVE  Undisturbed(s)
  <2>1. Keeps(g, hci')
    BY <1>4, CheckKeeps, Zenon
  <2> QED BY <1>1, <1>4, <2>1 DEF Keeps, Alike, Undisturbed
<1>5. CASE StateReported(h)
  <2>1. hci' = CheckTarget(h) /\ wsState' = wsState
    BY <1>5, Zenon DEF StateReported, Uninvolved, wsVars
  <2>2. s \in {Ready("Closed", c) : c \in {"Connecting", "Connected",
                       "PairingWaiting", "PairingStarted", "Disconnecting"}}
                    \cup {Ready("Opening", "GotIP"), Ready("Opening", "Disconnected")}
    BY <1>1, <1>5 DEF StateReported
  <2>3. Passing(s)
    BY <2>2, StateParts DEF Passing
  <2> QED BY <1>1, <1>4, <2>1, <2>3
<1>6. CASE StateInitializing(h)
  <2> DEFINE g == [h EXCEPT !.curState = Zero]
  <2>1. hci' = CheckTarget(g) /\ wsState' = wsState /\ s = Initializing
    BY <1>1, <1>6, Zenon DEF StateInitializing, Uninvolved, wsVars
  <2>2. g \in HciType /\ g.curState = Zero
        /\ g.pSocketInitStruct = h.pSocketInitStruct /\ g.pConnInitStruct = h.pConnInitStruct
    BY <1>1, <1>3 DEF HciType, State
  <2> HIDE DEF g
  <2>3. Passing(s)
    BY <2>1, StateParts DEF Passing
  <2> QED BY <1>4, <2>1, <2>2, <2>3
<1>7. CASE StateDisconnected(h)
  <2> DEFINE f == FreeSocket(h)
             g == [f EXCEPT !.pConnInitStruct = "NULL"]
  <2>1. hci' = CheckTarget(g) /\ SocketClosed /\ s = Alone
    BY <1>1, <1>7, Zenon DEF StateDisconnected
  <2>2. f \in HciType /\ f.pSocketInitStruct = "NULL" /\ Alike(f.curState, s)
    BY <1>1, FreedSocket
  <2> HIDE DEF f
  <2>3. g \in HciType /\ g.pSocketInitStruct = "NULL" /\ g.pConnInitStruct = "NULL"
        /\ Alike(g.curState, s)
    BY <2>2 DEF HciType, Alike
  <2> HIDE DEF g
  <2>4. Keeps(g, hci')
    BY <2>1, <2>3, CheckKeeps, Zenon
  <2>5. wsState' = IF NoSocket THEN wsState ELSE "Closed"
    BY <2>1, Zenon DEF SocketClosed, onSocketClosed, wsVars
  <2> QED BY <2>1, <2>3, <2>4, <2>5 DEF Keeps, Alike, Lost
<1>8. CASE StateOpened(h)
  <2>1. s = Online /\ h.curState.sckt = "Opened"
    BY <1>1, <1>8, StateParts DEF StateOpened
  <2>2. ~NoSocket
    <3>1. s # Initializing /\ s # Alone /\ \A c, k : k # "Opened" => s # Ready(k, c)
      BY <2>1, StateParts
    <3>2. FailedByState(Online) =
           Failing(646, HasConn) \cup Failing(647, ~NoSocket) \cup Failing(648, NoTx)
      BY <2>1, <3>1 DEF FailedByState, Pairing, Stopped, Joined, Alone
    <3>3. Failing(647, ~NoSocket) = {}
      BY <2>1, <3>2
    <3> QED BY <3>3 DEF Failing
  <2>3. CASE h.pSocketInitStruct = "Opening"
    <3> DEFINE g == [h EXCEPT !.pSocketInitStruct = "Opened"]
    <3>1. hci' = CheckTarget(Handshake(g)) /\ wsState' = "Handshaking"
      BY <1>8, <2>3, Zenon DEF StateOpened, onSocketOpened
    <3>2. g \in HciType /\ g.pSocketInitStruct = "Opened"
          /\ g.pConnInitStruct = h.pConnInitStruct /\ g.curState = h.curState
      BY <1>1 DEF HciType
    <3> HIDE DEF g
    <3>3. Keeps(g, Handshake(g)) /\ Handshake(g) \in HciType
      BY <3>2, CallsCalm, Zenon DEF Calm, Keeps
    <3>4. Keeps(g, hci')
      BY <3>1, <3>3, CheckKeeps, CalmOn, Zenon
    <3> QED BY <1>1, <2>1, <2>2, <2>3, <3>1, <3>2, <3>4 DEF Keeps, Alike, OpenedUp
  <2>4. CASE h.pSocketInitStruct # "Opening"
    <3>1. hci' = CheckTarget(h) /\ wsState' = wsState
      BY <1>8, <2>4, Zenon DEF StateOpened, wsVars
    <3>2. Keeps(h, hci')
      BY <1>1, <3>1, CheckKeeps, Zenon
    <3>3. hci.pSocketInitStruct = "Opened"
      BY <1>1, <2>2, <2>4 DEF NoSocket, HciType
    <3> QED BY <1>1, <2>1, <2>2, <3>1, <3>2, <3>3 DEF Keeps, Alike, OpenedUp
  <2> QED BY <2>3, <2>4
<1>9. CASE StateJoined(h)
  <2> DEFINE e == FreeSocket(h)
             c == IF e.pConnInitStruct = "NULL" THEN e.pConnInitStruct ELSE "Connected"
             k == [e EXCEPT !.pConnInitStruct = c, !.scktTxFIFO = << >>]
  <2>1. e \in HciType /\ e.pSocketInitStruct = "NULL" /\ Alike(e.curState, s)
        /\ e.pConnInitStruct = h.pConnInitStruct
    BY <1>1, FreedSocket
  <2>2. SocketClosed /\ s = Joined
    BY <1>1, <1>9, Zenon DEF StateJoined
  <2>3. hci' = CheckTarget(k)
    BY <1>9, Zenon DEF StateJoined
  <2> HIDE DEF e
  <2>4. c \in {"NULL", "Connecting", "Connected"} /\ c = IF HasConn THEN "Connected" ELSE "NULL"
    BY <1>1, <2>1 DEF HasConn
  <2> HIDE DEF c
  <2>5. k \in HciType /\ k.pSocketInitStruct = "NULL" /\ Alike(k.curState, s)
        /\ k.pConnInitStruct = c
    <3>1. << >> \in Seq({"GET", "text", "close"})
      OBVIOUS
    <3> QED BY <2>1, <2>4, <3>1 DEF HciType, Alike
  <2> HIDE DEF k
  <2>6. Keeps(k, hci')
    BY <2>3, <2>5, CheckKeeps, Zenon
  <2>7. wsState' = IF NoSocket THEN wsState ELSE "Closed"
    BY <2>2, Zenon DEF SocketClosed, onSocketClosed, wsVars
  <2> QED BY <2>2, <2>4, <2>5, <2>6, <2>7 DEF Keeps, Alike, Made
<1>10. CASE StateClosing(h)
  <2> DEFINE g == [h EXCEPT !.scktTxFIFO = << >>]
  <2>1. hci' = CheckTarget(g) /\ wsState' = wsState /\ s = Ready("Closing", "GotIP")
    BY <1>1, <1>10, Zenon DEF StateClosing, Uninvolved, wsVars
  <2>2. << >> \in Seq({"GET", "text", "close"})
    OBVIOUS
  <2>3. g \in HciType /\ g.curState = s
        /\ g.pSocketInitStruct = h.pSocketInitStruct /\ g.pConnInitStruct = h.pConnInitStruct
    BY <1>1, <2>2 DEF HciType
  <2> HIDE DEF g
  <2>4. Passing(s)
    BY <2>1, StateParts DEF Passing
  <2> QED BY <1>4, <2>1, <2>3, <2>4
<1>11. CASE StatePaired(h)
  <2>1. wsState' = wsState
    BY <1>11, Zenon DEF StatePaired, Uninvolved, wsVars
  <2>2. PICK c \in {"Failure", "Success"} :
          hci' = CheckTarget([h EXCEPT !.curState = Zero, !.pPairingInitStruct = @ \ {c}])
    BY <1>11, Zenon DEF StatePaired
  <2> DEFINE g == [h EXCEPT !.curState = Zero, !.pPairingInitStruct = @ \ {c}]
  <2>3. g \in HciType /\ g.curState = Zero
        /\ g.pSocketInitStruct = h.pSocketInitStruct /\ g.pConnInitStruct = h.pConnInitStruct
    BY <1>1, <1>3 DEF HciType, State
  <2>4. s \in {Ready("Closed", "PairingSuccess"), Ready("Closed", "PairingFailure")}
    BY <1>1, <1>11 DEF StatePaired
  <2>5. Passing(s)
    BY <2>4, StateParts DEF Passing
  <2>6. hci' = CheckTarget(g)
    BY <2>2
  <2> HIDE DEF g
  <2> QED BY <1>4, <2>1, <2>3, <2>5, <2>6
<1>12. CASE StatePairingStopped(h)
  <2> DEFINE g1 == [h EXCEPT !.curState = Zero, !.pPairingInitStruct = {}]
             g2 == [h EXCEPT !.pPairingInitStruct = {}]
  <2>1. wsState' = wsState /\ s = Stopped
    BY <1>1, <1>12, Zenon DEF StatePairingStopped, wsVars
  <2>2. hci' = CheckTarget(g1) \/ hci' = CheckTarget(g2)
    BY <1>12, Zenon DEF StatePairingStopped
  <2>3. g1 \in HciType /\ g1.curState = Zero
        /\ g1.pSocketInitStruct = h.pSocketInitStruct /\ g1.pConnInitStruct = h.pConnInitStruct
    BY <1>1, <1>3 DEF HciType, State
  <2>4. g2 \in HciType /\ g2.curState = s
        /\ g2.pSocketInitStruct = h.pSocketInitStruct /\ g2.pConnInitStruct = h.pConnInitStruct
    BY <1>1 DEF HciType
  <2> HIDE DEF g1, g2
  <2>5. Passing(s)
    BY <2>1, StateParts DEF Passing
  <2> QED BY <1>4, <2>1, <2>2, <2>3, <2>4, <2>5
<1> QED
  BY <1>2, <1>5, <1>6, <1>7, <1>8, <1>9, <1>10, <1>11, <1>12

-----------------------------------------------------------------------------
(* The other handlers.                                                     *)

(* A step of the HCI that may forget the current state.                    *)
Drift(h, g) ==
  /\ g \in HciType
  /\ g.pSocketInitStruct = h.pSocketInitStruct /\ g.pConnInitStruct = h.pConnInitStruct
  /\ Alike(h.curState, g.curState) \/ Alike(Zero, g.curState)
  /\ g.tarState = Online => h.tarState = Online
  /\ g.tarState = Online /\ "CheckHciWiFiState" \in g.events => "CheckHciWiFiState" \in h.events

(* What is calm drifts at most.                                            *)
LEMMA CalmDrift == \A h, g : Calm(h, g) => Drift(h, g)
BY DEF Calm, Keeps, Drift

(* The flags of a transfer are no part of it.                              *)
LEMMA CommCalm ==
  ASSUME NEW h \in HciType, NEW comm \in SUBSET {"Tx", "Rx"}
  PROVE  Calm(h, [h EXCEPT !.curState.comm = comm])
BY DEF Calm, Keeps, Alike, HciType

(* Other event flags are not, either.                                      *)
LEMMA EventsCalm ==
  ASSUME NEW h \in HciType, NEW flags \in SUBSET HciFlags,
         "CheckHciWiFiState" \in flags => "CheckHciWiFiState" \in h.events
  PROVE  Calm(h, [h EXCEPT !.events = flags])
BY DEF Calm, Keeps, Alike, HciType

(* How far a websocket gets by what it receives.                           *)
Talks ==
  \/ wsState' = wsState
  \/ wsState = "Handshaking" /\ wsState' \in {"HandshakePass", "Closing"}
  \/ wsState = "HandshakePass" /\ wsState' = "Closing"

(* Received data is calm: at most the websocket gets on.                   *)
LEMMA RxCalm ==
  ASSUME hci \in HciType, NEW data, ProcessRxDataStream(data)
  PROVE  Calm(hci, hci') /\ Talks /\ cmds' = cmds
<1> DEFINE comm == hci.curState.comm \ {"Rx"}
           h == [hci EXCEPT !.curState.comm = comm]
<1>1. comm \in SUBSET {"Tx", "Rx"}
  BY DEF HciType
<1>2. (RxHandshaking(h, data) \/ RxHandshakePass(h, data) \/ RxOtherwise(h, data))
      /\ cmds' = cmds
  BY Zenon DEF ProcessRxDataStream, NoCommand
<1> HIDE DEF comm
<1>3. Calm(hci, h) /\ h \in HciType
  BY <1>1, CommCalm, Zenon DEF Calm, Keeps
<1> HIDE DEF h
<1>4. hci' \in {h, OnWebSocketRxData(h, data), HciWiFiSocketClose(h), WebSocketClose(h)}
  BY <1>2, Zenon DEF RxHandshaking, RxHandshakePass, RxOtherwise
<1>5. Calm(h, hci')
  BY <1>3, <1>4, CallsCalm, SameCalm, Zenon
<1>6. Talks
  BY <1>2, Zenon
     DEF Talks, RxHandshaking, RxHandshakePass, RxOtherwise, wsVars, WebSocketCloses,
         onWebSocketRxData
<1> QED BY <1>2, <1>3, <1>5, <1>6, CalmOn, Zenon

(* So is the data that is sent, ...                                        *)
LEMMA TxCalm ==
  ASSUME Core, NEW len \in Nat, ProcessTxDataStream(len)
  PROVE  Calm(hci, hci') /\ Talks /\ \E c : cmds' = Append(cmds, c) /\ c.at = "data"
<1> DEFINE fifo == SubSeq(hci.scktTxFIFO, len + 1, Len(hci.scktTxFIFO))
           c == [at |-> "data", units |-> SubSeq(hci.scktTxFIFO, 1, len)]
<1>1. hci' = [hci EXCEPT !.scktTxFIFO = fifo] /\ wsState' = wsState /\ cmds' = Append(cmds, c)
  BY Zenon DEF ProcessTxDataStream, Uninvolved, wsVars, Issue
<1>2. hci' \in HciType /\ hci \in HciType
  BY TxStep DEF CoreStep, Core
<1>3. c.at = "data"
  OBVIOUS
<1> HIDE DEF fifo, c
<1>4. Calm(hci, hci')
  BY <1>1, <1>2 DEF Calm, Keeps, Alike, HciType
<1> QED BY <1>1, <1>3, <1>4, Zenon DEF Talks

(* ... a credential that was received, ...                                 *)
LEMMA UpdateCalm ==
  ASSUME hci \in HciType, NEW credential, PairingUpdate(credential)
  PROVE  Calm(hci, hci') /\ Talks /\ cmds' = cmds
<1>1. hci' = hci /\ wsState' = wsState /\ cmds' = cmds
  BY Zenon DEF PairingUpdate, wsVars, NoCommand
<1>2. Calm(hci, hci)
  BY SameCalm
<1> QED BY <1>1, <1>2, Zenon DEF Talks

(* ... and a line: only what it posts will do anything.                    *)
LEMMA LineCalm ==
  ASSUME hci \in HciType, NEW line, NEW row, HciWiFiATCoP(line, row)
  PROVE  Calm(hci, hci') /\ Talks /\ cmds' = cmds
<1> DEFINE flags == hci.events \cup {"Transmitted"}
<1>1. /\ flags \in SUBSET HciFlags
      /\ ("CheckHciWiFiState" \in flags => "CheckHciWiFiState" \in hci.events)
  BY DEF HciType, HciFlags
<1>2. hci' \in {hci, [hci EXCEPT !.events = flags]} /\ wsState' = wsState /\ cmds' = cmds
  BY Zenon DEF HciWiFiATCoP, wsVars
<1> HIDE DEF flags
<1>3. Calm(hci, hci')
  BY <1>1, <1>2, EventsCalm, SameCalm, Zenon
<1> QED BY <1>2, <1>3, Zenon DEF Talks

(* A posted state gives no command that opens a connection.                *)
LEMMA PostCommands ==
  ASSUME NEW s, ProcessHciState(s)
  PROVE  cmds' = cmds \/ \E c : cmds' = Append(cmds, c) /\ c.at # "AT+CIPSTART"
<1>1. \/ cmds' = cmds \/ cmds' = Append(cmds, AT("AT+CWMODE_CUR"))
      \/ cmds' = Append(cmds, AT("AT+CWSTOPSMART")) \/ cmds' = Append(cmds, AT("AT+CWQAP"))
  BY Zenon
     DEF ProcessHciState, StateReported, StateInitializing, StateDisconnected, StateOpened,
         StateJoined, StateClosing, StatePaired, StatePairingStopped, NoCommand, Issue
<1>2. \A a : AT(a).at = a
  BY DEF AT
<1> QED BY <1>1, <1>2

(* A key only asks for a pairing.                                          *)
LEMMA KeyCalm ==
  ASSUME hci \in HciType, NEW key, ProcessOsalMsgKey(key)
  PROVE  Calm(hci, hci')
<1>1. hci' \in {hci, HciWiFiPairingStart(hci)}
  BY Zenon DEF ProcessOsalMsgKey
<1> QED BY <1>1, SameCalm, PairCalm, Zenon

(* The first of the flags is one of them.                                  *)
LEMMA LeastIndex ==
  ASSUME NEW T, T \subseteq Nat, T # {}
  PROVE  \E l \in T : \A k \in T : l <= k
<1> DEFINE Less == OpToRel(<, Nat)
<1>1. IsWellFoundedOn(Less, Nat)
  BY NatLessThanWellFounded
<1>2. PICK x \in T : \A y \in T : <<y, x>> \notin Less
  BY <1>1, WFMin
<1>3. \A y \in T : ~(y < x)
  BY <1>2 DEF OpToRel
<1> QED BY <1>3

(* The first of the flags in an order that knows one of them.              *)
LEMMA FirstIsFlag ==
  ASSUME NEW order, DOMAIN order \subseteq Nat, NEW flags,
         \E i \in DOMAIN order : order[i] \in flags
  PROVE  First(order, flags) \in flags
<1> DEFINE set == {i \in DOMAIN order : order[i] \in flags}
<1>1. \E i \in set : \A j \in set : i <= j
  BY LeastIndex
<1>2. (CHOOSE i \in set : \A j \in set : i <= j) \in set
  BY <1>1
<1> QED BY <1>2 DEF First

(* The HCI task works off a flag that is set, ...                          *)
LEMMA HciFlagIsSet ==
  ASSUME hci \in HciType, hci.events # {}
  PROVE  HciFlag \in hci.events
<1>1. hci.events \subseteq HciFlags
  BY DEF HciType
<1>2. DOMAIN HciOrder = 1 .. 6
  BY DEF HciOrder
<1>3. \A f \in HciFlags : \E i \in 1 .. 6 : HciOrder[i] = f
  <2>1. /\ HciOrder[1] = "CheckHciWiFiState" /\ HciOrder[2] = "HciEnable"
        /\ HciOrder[3] = "TxPoll" /\ HciOrder[4] = "Transmitted"
        /\ HciOrder[5] = "Receiving" /\ HciOrder[6] = "PairingTimeout"
    BY DEF HciOrder
  <2> QED BY <2>1 DEF HciFlags
<1>4. \E i \in DOMAIN HciOrder : HciOrder[i] \in hci.events
  BY <1>1, <1>2, <1>3
<1> QED BY <1>2, <1>4, FirstIsFlag DEF HciFlag

(* ... and so does the application.                                        *)
LEMMA AppFlagIsSet ==
  ASSUME appEvents \subseteq AppFlags, appEvents # {}
  PROVE  AppFlag \in appEvents
<1>2. DOMAIN AppOrder = 1 .. 4
  BY DEF AppOrder
<1>3. \A f \in AppFlags : \E i \in 1 .. 4 : AppOrder[i] = f
  <2>1. /\ AppOrder[1] = "SendHBP" /\ AppOrder[2] = "OpenWebSocket"
        /\ AppOrder[3] = "StartWiFiConn" /\ AppOrder[4] = "CloseWebSocket"
    BY DEF AppOrder
  <2> QED BY <2>1 DEF AppFlags
<1>4. \E i \in DOMAIN AppOrder : AppOrder[i] \in appEvents
  BY <1>2, <1>3
<1> QED BY <1>2, <1>4, FirstIsFlag DEF AppFlag

(* What a flag of the HCI task does: a connection is only opened for the   *)
(* target that was set for a socket.                                       *)
OpensSocket ==
  /\ cmds' = Append(cmds, AT("AT+CIPSTART"))
  /\ hci.curState = Joined /\ ~NoSocket
  /\ hci.tarState = Online /\ "CheckHciWiFiState" \in hci.events
  /\ Alike(Zero, hci'.curState)

(* A flag of the HCI task drifts, and gives one command at most.           *)
LEMMA FlagEffect ==
  ASSUME hci \in HciType, NEW f \in hci.events, HciProcessEvent(f)
  PROVE  /\ Drift(hci, hci')
         /\ \/ cmds' = cmds
            \/ \E c : cmds' = Append(cmds, c) /\ c.at # "AT+CIPSTART"
            \/ OpensSocket
         /\ esp' = esp \/ esp' = PoweredUp
<1> DEFINE flags == hci.events \ {f}
           h == [hci EXCEPT !.events = flags]
<1>1. flags \in SUBSET HciFlags
      /\ ("CheckHciWiFiState" \in flags => "CheckHciWiFiState" \in hci.events)
  BY DEF HciType
<1>2. \/ f = "CheckHciWiFiState" /\ StateController(h)
      \/ HciEnable(h) \/ TxPoll(h) \/ Transmitted(h) \/ Receiving(h) \/ PairingTimeout(h)
  BY Zenon DEF HciProcessEvent
<1>3. h.curState = hci.curState /\ h.tarState = hci.tarState
  BY DEF HciType
<1> HIDE DEF flags
<1>4. Calm(hci, h) /\ h \in HciType
  BY <1>1, EventsCalm, Zenon DEF Calm, Keeps
<1> HIDE DEF h
<1> DEFINE zero == [h EXCEPT !.curState = Zero]
           tx == h.curState.comm \cup {"Tx"}
           no == h.curState.comm \ {"Tx"}
           rx == h.curState.comm \cup {"Rx"}
<1>5. hci' \in {h, zero, [h EXCEPT !.curState.comm = tx], [h EXCEPT !.curState.comm = no],
               [h EXCEPT !.curState.comm = rx]}
  BY <1>2, Zenon
     DEF StateController, HciEnable, TxPoll, Transmitted, Receiving, PairingTimeout, Wait, Steer
<1>6. Drift(h, h) /\ Drift(h, zero) /\ Alike(Zero, zero.curState)
  <2>1. zero \in HciType /\ zero.curState = Zero /\ zero.pSocketInitStruct = h.pSocketInitStruct
        /\ zero.pConnInitStruct = h.pConnInitStruct /\ zero.tarState = h.tarState
        /\ zero.events = h.events
    BY <1>4, States DEF HciType, State
  <2> QED BY <1>4, <2>1, SameCalm, CalmDrift DEF Drift, Alike
<1>7. tx \in SUBSET {"Tx", "Rx"} /\ no \in SUBSET {"Tx", "Rx"} /\ rx \in SUBSET {"Tx", "Rx"}
  BY <1>4 DEF HciType
<1> HIDE DEF zero, tx, no, rx
<1>8. Drift(h, hci')
  <2>1. \A c \in SUBSET {"Tx", "Rx"} : Drift(h, [h EXCEPT !.curState.comm = c])
    BY <1>4, CommCalm, CalmDrift
  <2>2. Drift(h, [h EXCEPT !.curState.comm = tx])
    BY <1>7, <2>1, Zenon
  <2>3. Drift(h, [h EXCEPT !.curState.comm = no])
    BY <1>7, <2>1, Zenon
  <2>4. Drift(h, [h EXCEPT !.curState.comm = rx])
    BY <1>7, <2>1, Zenon
  <2> QED BY <1>5, <1>6, <2>2, <2>3, <2>4, Zenon
<1>9. Drift(hci, hci')
  BY <1>4, <1>8 DEF Calm, Keeps, Drift, Alike
<1>10. \A a : AT(a).at = a
  BY DEF AT
<1>11. \/ cmds' = cmds
       \/ \E c : cmds' = Append(cmds, c) /\ c.at # "AT+CIPSTART"
       \/ OpensSocket
  <2>1. CASE f = "CheckHciWiFiState" /\ StateController(h)
    <3>1. \/ cmds' = cmds
          \/ \E c \in CommandFor : cmds' = Append(cmds, c) /\ hci' = zero
      BY <2>1, Zenon DEF StateController, Wait, Steer, NoCommand, Issue, zero
    <3>2. ASSUME NEW c \in CommandFor, cmds' = Append(cmds, c), hci' = zero
          PROVE  c.at # "AT+CIPSTART" \/ OpensSocket
      <4>1. CASE hci.tarState = Online
        <5>1. c = AT("AT+CIPSTART") /\ hci.curState = Joined /\ ~NoSocket
          BY <3>2, <4>1 DEF CommandFor, MayOpen, Joined, Pairing, Alone, Online, Ready,
               HCI_WIFI_STATE
        <5> QED BY <1>6, <2>1, <3>2, <4>1, <5>1, Zenon DEF OpensSocket
      <4>2. CASE hci.tarState # Online
        <5>1. c \in {AT("AT+CWJAP_CUR"), AT("AT+CIPCLOSE"), AT("AT+CWSTARTSMART"), AT("AT+CWQAP")}
          BY <3>2, <4>2 DEF CommandFor
        <5> QED BY <1>10, <5>1
      <4> QED BY <4>1, <4>2
    <3> QED BY <3>1, <3>2
  <2>2. CASE HciEnable(h) \/ Receiving(h)
    BY <2>2, Zenon DEF HciEnable, Receiving, Wait, NoCommand
  <2>3. CASE TxPoll(h) \/ Transmitted(h)
    <3> DEFINE c == [at |-> "AT+CIPSEND", n |-> Len(hci.scktTxFIFO)]
    <3>1. c.at # "AT+CIPSTART"
      OBVIOUS
    <3>2. cmds' = cmds \/ cmds' = Append(cmds, c)
      BY <2>3, Zenon DEF TxPoll, Transmitted, Wait, NoCommand, SendNext, Issue
    <3> QED BY <3>1, <3>2, Zenon
  <2>4. CASE PairingTimeout(h)
    BY <1>10, <2>4 DEF PairingTimeout, Steer, Issue
  <2> QED BY <1>2, <2>1, <2>2, <2>3, <2>4
<1>12. esp' = esp \/ esp' = PoweredUp
  BY <1>2, Zenon
     DEF StateController, HciEnable, TxPoll, Transmitted, Receiving, PairingTimeout
<1> QED BY <1>9, <1>11, <1>12

(* What a flag of the application does.                                    *)
AsksForSocket ==
  /\ hci.curState = Joined /\ hci.pSocketInitStruct = "NULL"
  /\ hci'.pSocketInitStruct = "Opening" /\ hci'.pConnInitStruct = hci.pConnInitStruct
  /\ hci'.curState = hci.curState /\ hci' \in HciType
  /\ wsState' = "Opening"

AsksForConnection ==
  /\ hci.curState \in {Alone, Stopped} /\ hci.pConnInitStruct = "NULL"
  /\ hci'.pSocketInitStruct = hci.pSocketInitStruct /\ hci'.pConnInitStruct = "Connecting"
  /\ hci'.curState = hci.curState /\ hci' \in HciType /\ hci'.tarState # Online
  /\ wsState' = wsState

(* What an event of the application does that meets its assertions.        *)
LEMMA AppEffect ==
  ASSUME Core, NEW f, ProcessEvent(f), FailedByEvent(f) = {}
  PROVE  \/ AsksForSocket /\ f = "OpenWebSocket"
         \/ AsksForConnection
         \/ Calm(hci, hci') /\ Talks
<1>1. hci \in HciType
  BY DEF Core
<1>2. CASE f = "SendHBP" /\ SendHBP
  <2>1. hci' = WebSocketSend(hci) /\ wsState' = wsState
    BY <1>2, Zenon DEF SendHBP, wsVars
  <2> QED BY <1>1, <2>1, CallsCalm, Zenon DEF Talks
<1>3. CASE f = "CloseWebSocket" /\ CloseWebSocket
  <2>1. hci' = WebSocketClose(hci) /\ WebSocketCloses
    BY <1>3, Zenon DEF CloseWebSocket
  <2>2. Talks
    BY <2>1, Zenon DEF WebSocketCloses, Talks
  <2> QED BY <1>1, <2>1, <2>2, CallsCalm, Zenon
<1>4. CASE f = "OpenWebSocket" /\ OpenWebSocket
  <2>1. CASE hci.curState = Joined
    <3> DEFINE g == [hci EXCEPT !.pSocketInitStruct = "Opening"]
    <3>1. hci' = Target(g, Online) /\ wsState' = "Opening"
      BY <1>4, <2>1, Zenon DEF OpenWebSocket, WebSocketOpen, HciWiFiSocketOpen
    <3>2. hci.pSocketInitStruct = "NULL"
      <4>1. hci.pSocketInitStruct # "NULL" => pwsInit
        BY Zenon DEF Core, WebSocketFollowsSocket
      <4>2. pwsInit => FailedByEvent(f) = {308}
        BY <1>4, <2>1 DEF FailedByEvent
      <4> QED BY <4>1, <4>2
    <3>3. g \in HciType /\ g.pSocketInitStruct = "Opening" /\ g.curState = hci.curState
          /\ g.pConnInitStruct = hci.pConnInitStruct
      BY <1>1 DEF HciType
    <3> HIDE DEF g
    <3>4. hci' \in HciType /\ hci'.pSocketInitStruct = "Opening" /\ hci'.curState = hci.curState
          /\ hci'.pConnInitStruct = hci.pConnInitStruct
      BY <3>1, <3>3 DEF HciType, Target, HciFlags
    <3> QED BY <1>4, <2>1, <3>1, <3>2, <3>4, Zenon DEF AsksForSocket
  <2>2. CASE hci.curState # Joined
    <3>1. hci' = hci /\ wsState' = wsState
      BY <1>4, <2>2, Zenon DEF OpenWebSocket, wsVars
    <3>2. Calm(hci, hci)
      BY <1>1, SameCalm
    <3> QED BY <3>1, <3>2, Zenon DEF Talks
  <2> QED BY <2>1, <2>2
<1>5. CASE f = "StartWiFiConn" /\ StartWiFiConn
  <2>0. wsState' = wsState
    BY <1>5, Zenon DEF StartWiFiConn, wsVars
  <2>1. CASE hci.curState \in {Alone, Stopped} /\ "ssid" \in flash
    <3> DEFINE g == [hci EXCEPT !.pConnInitStruct = "Connecting"]
    <3>1. hci' = Target(g, Joined)
      BY <1>5, <2>1, Zenon DEF StartWiFiConn, HciWiFiSetConnection
    <3>2. hci.pConnInitStruct = "NULL"
      BY <1>5, <2>1 DEF FailedByEvent
    <3>3. g \in HciType /\ g.pSocketInitStruct = hci.pSocketInitStruct
          /\ g.curState = hci.curState /\ g.pConnInitStruct = "Connecting"
      BY <1>1 DEF HciType
    <3> HIDE DEF g
    <3>4. Joined \in {Zero, Alone, Joined, Pairing, Online} /\ Joined # Online
      BY TargetsDiffer
    <3>5. hci' \in HciType /\ hci'.pSocketInitStruct = hci.pSocketInitStruct
          /\ hci'.curState = hci.curState /\ hci'.pConnInitStruct = "Connecting"
          /\ hci'.tarState = Joined
      BY <3>1, <3>3, <3>4 DEF HciType, Target, HciFlags
    <3> QED BY <2>0, <2>1, <3>2, <3>4, <3>5, Zenon DEF AsksForConnection
  <2>2. CASE ~(hci.curState \in {Alone, Stopped} /\ "ssid" \in flash)
    <3>1. hci' \in {hci, HciWiFiPairingStart(hci)}
      BY <1>5, <2>2, Zenon DEF StartWiFiConn
    <3> QED BY <1>1, <2>0, <3>1, SameCalm, PairCalm, Zenon DEF Talks
  <2> QED BY <2>1, <2>2
<1> QED BY <1>2, <1>3, <1>4, <1>5, Zenon DEF ProcessEvent

-----------------------------------------------------------------------------
(* Which lines post what is known.                                         *)

Sets(row, p, a, n, b) == row.proc = p /\ row.at = a /\ row.next = n /\ row.post = b

Posts(row, at) ==
  /\ row.at = at
  /\ row.post /\ row.next = "CWJAP_CUR" => at \in {"ready", "CLOSED", "AT+CWJAP_CUR"}
  /\ row.post /\ row.next = "CIPSTART"
       => at \in {"ready", "WIFI CONNECTED", "WIFI GOT IP", "WIFI DISCONNECT", "AT+CIPSTART"}
  /\ at \in {"AT+CWJAP_CUR", "AT+CIPSTART"} => row.post
  /\ row.proc = "CIPSTART" /\ at = "OK" => row.post
  /\ at = "ready" => row.change = Dev("Initializing")

(* A row is known by its parts.                                            *)
LEMMA RowSets ==
  ASSUME NEW row
  PROVE  \A p, a, n, c, b : row = Row(p, a, n, c, b)
           => Sets(row, p, a, n, b) /\ (a = "ready" => row.change = c)
BY RowParts DEF Sets

(* The tables post as Posts says ...                                       *)
LEMMA RepliesPost ==
  ASSUME NEW row \in Replies
  PROVE  Posts(row, row.at)
<1>1. \A p, a, n, c, b : row = Row(p, a, n, c, b) => Sets(row, p, a, n, b)
  BY RowSets, Zenon
<1>2. CASE row \in JoinReplies
  <2>1. \/ Sets(row, "CWMODE_CUR", "OK", "NULL", TRUE)
        \/ Sets(row, "CWJAP_CUR", "WIFI CONNECTED", "CWJAP_CUR", FALSE)
        \/ Sets(row, "CWJAP_CUR", "WIFI GOT IP", "CWJAP_CUR", FALSE)
        \/ Sets(row, "CWJAP_CUR", "WIFI DISCONNECT", "CWJAP_CUR", FALSE)
        \/ Sets(row, "CWJAP_CUR", "+CWJAP:", "CWJAP_CUR", FALSE)
        \/ Sets(row, "CWJAP_CUR", "OK", "NULL", TRUE)
        \/ Sets(row, "CWJAP_CUR", "FAIL", "NULL", TRUE)
    BY <1>1, <1>2, Zenon DEF JoinReplies
  <2> QED BY <2>1 DEF Sets, Posts
<1>3. CASE row \in SmartReplies
  <2>1. \/ Sets(row, "CWSTARTSMART", "OK", "SmartConfig", TRUE)
        \/ Sets(row, "CWSTOPSMART", "OK", "NULL", TRUE)
    BY <1>1, <1>3, Zenon DEF SmartReplies
  <2> QED BY <2>1 DEF Sets, Posts
<1>4. CASE row \in OpenReplies
  <2> DEFINE n == IF errReason THEN "NULL" ELSE "CIPSTART"
  <2>1. \/ Sets(row, "CIPSTART", "CONNECT", "CIPSTART", FALSE)
        \/ Sets(row, "CIPSTART", "OK", "NULL", TRUE)
        \/ Sets(row, "CIPSTART", "no ip", "CIPSTART", FALSE)
        \/ Sets(row, "CIPSTART", "DNS Fail", "CIPSTART", FALSE)
        \/ Sets(row, "CIPSTART", "ERROR", n, errReason)
        \/ Sets(row, "CIPSTART", "CLOSED", "NULL", TRUE)
    BY <1>1, <1>4, Zenon DEF OpenReplies, n
  <2>2. errReason => n = "NULL"
    OBVIOUS
  <2>3. n \in {"NULL", "CIPSTART"}
    OBVIOUS
  <2> HIDE DEF n
  <2>4. CASE Sets(row, "CIPSTART", "ERROR", n, errReason)
    <3>1. row.post => errReason
      BY <2>4, Zenon DEF Sets
    <3> QED BY <2>2, <2>3, <2>4, <3>1 DEF Sets, Posts
  <2> QED BY <2>1, <2>4 DEF Sets, Posts
<1>5. CASE row \in OtherReplies
  <2>1. \/ Sets(row, "CIPSEND", "OK", "TxDataStream", FALSE)
        \/ Sets(row, "CIPCLOSE", "OK", "NULL", TRUE)
        \/ Sets(row, "CWQAP", "AT+CWQAP", "CWQAP", FALSE)
        \/ Sets(row, "CWQAP", "OK", "NULL", FALSE)
    BY <1>1, <1>5, Zenon DEF OtherReplies
  <2> QED BY <2>1 DEF Sets, Posts
<1>6. CASE row \in SmartConfigLines
  <2>1. \/ Sets(row, "SmartConfig", "smartconfig type:", "SmartConfig", FALSE)
        \/ Sets(row, "SmartConfig", "ssid:", "SmartConfig", FALSE)
        \/ Sets(row, "SmartConfig", "password:", "SmartConfig", FALSE)
        \/ Sets(row, "SmartConfig", "WIFI CONNECTED", "SmartConfig", FALSE)
        \/ Sets(row, "SmartConfig", "WIFI GOT IP", "SmartConfig", FALSE)
        \/ Sets(row, "SmartConfig", "smartconfig connected wifi", "NULL", TRUE)
        \/ Sets(row, "SmartConfig", "WIFI DISCONNECT", "NULL", TRUE)
        \/ Sets(row, "SmartConfig", "AT+CWSTOPSMART", "CWSTOPSMART", FALSE)
    BY <1>1, <1>6, Zenon DEF SmartConfigLines
  <2> QED BY <2>1 DEF Sets, Posts
<1>7. CASE row \in TxReplies
  <2>1. \/ Sets(row, "TxDataStream", "SEND OK", "NULL", FALSE)
        \/ Sets(row, "TxDataStream", "CLOSED", "TxDataStream", FALSE)
        \/ Sets(row, "TxDataStream", "SEND FAIL", "NULL", TRUE)
    BY <1>1, <1>7, Zenon DEF TxReplies
  <2> QED BY <2>1 DEF Sets, Posts
<1> QED BY <1>2, <1>3, <1>4, <1>5, <1>6, <1>7, Zenon DEF Replies

(* ... and so do the others, unless a processor has its own use for them.  *)
LEMMA OthersPost ==
  ASSUME NEW at, NEW row, (row \in Unasked /\ RowsIn(Replies, at) = {}) \/ row \in Echoes,
         Meets(row, at)
  PROVE  Posts(row, at)
<1> DEFINE p == pfnATCmdProcessor
<1>1. \A q, a, n, c, b : row = Row(q, a, n, c, b)
        => Sets(row, q, a, n, b) /\ (a = "ready" => row.change = c)
  BY RowSets, Zenon
<1>2. row.at = at /\ row.proc = p
  BY DEF Meets
<1>3. CASE row \in Unasked /\ RowsIn(Replies, at) = {}
  <2>1. ASSUME NEW n, NEW c, NEW b, Row(p, at, n, c, b) \in Replies PROVE FALSE
    <3>1. Row(p, at, n, c, b).proc = p /\ Row(p, at, n, c, b).at = at
      BY RowParts
    <3> QED BY <1>3, <2>1, <3>1 DEF RowsIn
  <2>2. at \in {"WIFI CONNECTED", "WIFI GOT IP", "WIFI DISCONNECT"} => p # "CWJAP_CUR"
    BY <2>1, Zenon DEF Replies, JoinReplies
  <2>3. at = "CLOSED" => p # "CIPSTART"
    BY <2>1, Zenon DEF Replies, OpenReplies
  <2>4. \/ Sets(row, p, "+IPD", p, FALSE)
        \/ Sets(row, p, "busy p...", p, FALSE)
        \/ Sets(row, p, "ready", p, TRUE) /\ row.change = Dev("Initializing")
        \/ Sets(row, p, "WIFI CONNECTED", p, TRUE)
        \/ Sets(row, p, "WIFI GOT IP", p, TRUE)
        \/ Sets(row, p, "WIFI DISCONNECT", p, TRUE)
        \/ Sets(row, p, "CLOSED", p, TRUE)
    BY <1>1, <1>3, Zenon DEF Unasked, Generic
  <2> HIDE DEF p
  <2> QED BY <1>2, <2>2, <2>3, <2>4 DEF Sets, Posts
<1>4. CASE row \in Echoes
  <2>1. \/ Sets(row, "NULL", "AT+CWMODE_CUR", "CWMODE_CUR", FALSE)
        \/ Sets(row, "NULL", "AT+CWJAP_CUR", "CWJAP_CUR", TRUE)
        \/ Sets(row, "NULL", "AT+CWSTARTSMART", "CWSTARTSMART", FALSE)
        \/ Sets(row, "NULL", "AT+CIPSTART", "CIPSTART", TRUE)
        \/ Sets(row, "NULL", "AT+CIPSEND", "CIPSEND", FALSE)
        \/ Sets(row, "NULL", "smartconfig type:", "SmartConfig", TRUE)
        \/ Sets(row, "NULL", "AT+CIPCLOSE", "CIPCLOSE", TRUE)
        \/ Sets(row, "NULL", "AT+CWSTOPSMART", "CWSTOPSMART", FALSE)
        \/ Sets(row, "NULL", "AT+CWQAP", "CWQAP", TRUE)
    BY <1>1, <1>4, Zenon DEF Echoes
  <2> QED BY <1>2, <2>1 DEF Sets, Posts
<1> QED BY <1>3, <1>4

(* Whatever line is worked off.                                            *)
LEMMA RowsPost ==
  ASSUME NEW at, NEW row \in RowsFor(at)
  PROVE  Posts(row, at)
<1>1. \/ row \in Replies /\ Meets(row, at)
      \/ row \in Unasked /\ Meets(row, at) /\ RowsIn(Replies, at) = {}
      \/ row \in Echoes /\ Meets(row, at)
  BY DEF RowsFor, RowsIn, Meets
<1>2. CASE row \in Replies /\ Meets(row, at)
  <2>1. row.at = at
    BY <1>2 DEF Meets
  <2> QED BY <1>2, <2>1, RepliesPost, Zenon
<1>3. CASE row \notin Replies
  BY <1>1, <1>3, OthersPost, Zenon
<1> QED BY <1>1, <1>2, <1>3, OthersPost, Zenon

-----------------------------------------------------------------------------
(* The three rules.                                                        *)

JoinedLike(s) == s.sckt = "Closed" /\ s.conn = "GotIP" /\ s.dev = "Initialized"

(* Where an address is reported, the connection is one that was asked for. *)
LinkRule ==
  [due   |-> {x \in Message : x.head = "HciWiFiState" /\ x.state.conn = "GotIP"},
   ends  |-> {x \in Message : x.head = "HciWiFiState" /\ x.state = Alone},
   makes |-> {x \in Message : x.head = "HciWiFiState" /\ x.state.conn = "Connecting"},
   holds |-> {"Connecting", "Connected"},
   known |-> {c \in Ctx : c.proc = "CWJAP_CUR" \/ c.conn = "GotIP"}]

(* Data is received by a socket that is open.                              *)
SocketRule ==
  [due   |-> {x \in Message : x.head = "RxDataStream"},
   ends  |-> {x \in Message : x.head = "HciWiFiState" /\ x.state.sckt = "Closed"},
   makes |-> {x \in Message : x.head = "HciWiFiState" /\ x.state.sckt = "Opened"},
   holds |-> {"Opened"},
   known |-> {c \in Ctx : c.sckt = "Opened" /\ c.proc # "CIPSTART"}]

(* While a socket is opened or open, the task knows or will be told.       *)
OpeningRule ==
  [due   |-> {},
   ends  |-> {x \in Message : x.head = "HciWiFiState" /\ JoinedLike(x.state)},
   makes |-> {x \in Message : x.head = "HciWiFiState" /\ x.state.sckt = "Opening"},
   holds |-> {s \in State : ~JoinedLike(s)},
   known |-> {c \in Ctx : c.proc = "CIPSTART" \/ c.sckt \in {"Opening", "Opened"}}]

Chains ==
  /\ Chain(LinkRule, mail, hci.pConnInitStruct, Now)
  /\ Chain(SocketRule, mail, hci.pSocketInitStruct, Now)
  /\ Chain(OpeningRule, mail, hci.curState, Now)

(* What a line that leads from c to d may post: message y, or nothing.     *)
Follows(r, c, d, y, post) ==
  /\ post => /\ y \in r.due => c \in r.known
             /\ d \in r.known => y \notin r.ends /\ (y \in r.makes \/ c \in r.known)
  /\ ~post => (d \in r.known => c \in r.known)

(* A chain with what a line posts.                                         *)
LEMMA ChainMore ==
  ASSUME NEW r, NEW m \in Seq(Message), NEW v, NEW c, Chain(r, m, v, c), NEW d,
         NEW y \in Message, NEW post \in BOOLEAN, Follows(r, c, d, y, post)
  PROVE  Chain(r, m \o (IF post THEN <<y>> ELSE << >>), v, d)
<1>1. CASE post
  <2>1. m \o <<y>> = Append(m, y)
    OBVIOUS
  <2>2. /\ y \in r.due => c \in r.known
        /\ d \in r.known => y \notin r.ends /\ (y \in r.makes \/ c \in r.known)
    BY <1>1 DEF Follows
  <2>3. Chain(r, Append(m, y), v, d)
    BY <2>2, ChainPost, Zenon
  <2> QED BY <1>1, <2>1, <2>3, Zenon
<1>2. CASE ~post
  <2>1. m \o << >> = m
    OBVIOUS
  <2>2. d \in r.known => c \in r.known
    BY <1>2 DEF Follows
  <2>3. Chain(r, m, v, d)
    BY <2>2, ChainSame, Zenon
  <2> QED BY <1>2, <2>1, <2>3, Zenon
<1> QED BY <1>1, <1>2

(* A line, as it is met, and what it posts.                                *)
Meeting(c, at, d, row, s) ==
  /\ Takes(c, at, d) /\ Fit(c, at) /\ Posts(row, at)
  /\ row.proc = c.proc /\ row.next = d.proc
  /\ s.conn = d.conn /\ s.sckt = d.sckt /\ (at = "ready" => s.dev = "Initializing")

(* What a step of the tables may change, and by which lines.               *)
Steps(c, at, d) ==
  /\ d.proc = "CWJAP_CUR" => c.proc = "CWJAP_CUR" \/ at = "AT+CWJAP_CUR"
  /\ d.proc = "CIPSTART" => c.proc = "CIPSTART" \/ at = "AT+CIPSTART"
  /\ d.proc # c.proc => at \notin {"ready", "+IPD", "busy p..."}
  /\ at = "AT+CWJAP_CUR" => d.conn = "Connecting"
  /\ at = "AT+CIPSTART" => d.sckt = "Opening" /\ d.proc = "CIPSTART"
  /\ at = "WIFI CONNECTED" => d.conn = "Connected" \/ c.proc = "SmartConfig"
  /\ at = "WIFI DISCONNECT" => d.conn = "Disconnected" \/ c.proc = "SmartConfig"
  /\ d.conn = "GotIP" /\ c.conn # "GotIP" => at = "WIFI GOT IP" /\ c.proc # "SmartConfig"
  /\ at = "CLOSED" => d.conn = c.conn
  /\ d.sckt = "Opened" /\ c.sckt # "Opened" => c.proc = "CIPSTART" /\ d.proc = "CIPSTART"
  /\ d.sckt = "Opening" /\ c.sckt # "Opening" => at = "AT+CIPSTART"
  /\ c.proc = "CIPSTART" /\ d.proc # "CIPSTART" => at = "OK" \/ d.sckt = "Closed"

(* All the tables make only such steps.                                    *)
LEMMA TakesSteps ==
  ASSUME NEW c, NEW at, NEW d, Takes(c, at, d)
  PROVE  Steps(c, at, d)
<1>1. CASE JoinTakes(c, at, d)
  BY <1>1 DEF JoinTakes, Is, Steps
<1>2. CASE SmartTakes(c, at, d)
  BY <1>2 DEF SmartTakes, Is, Steps
<1>3. CASE OpenTakes(c, at, d)
  BY <1>3 DEF OpenTakes, Is, Steps
<1>4. CASE OtherTakes(c, at, d)
  BY <1>4 DEF OtherTakes, Is, Steps
<1>5. CASE AnyTakes(c, at, d)
  BY <1>5 DEF AnyTakes, Is, Steps
<1>6. CASE EchoTakes(c, at, d)
  BY <1>6 DEF EchoTakes, Is, Steps
<1> QED BY <1>1, <1>2, <1>3, <1>4, <1>5, <1>6 DEF Takes

(* What a line posts follows the rule of the connection, ...               *)
LEMMA LinkLine ==
  ASSUME NEW c \in Ctx, NEW at, NEW d \in Ctx, NEW row, NEW s \in State,
         Meeting(c, at, d, row, s), NEW y, y = [head |-> "HciWiFiState", state |-> s]
  PROVE  Follows(LinkRule, c, d, y, row.post)
<1>0. Steps(c, at, d)
  BY TakesSteps DEF Meeting
<1>1. /\ y.head = "HciWiFiState" /\ y.state = s /\ s.conn = d.conn
      /\ Alone.dev = "Initialized" /\ Alone.conn = "Disconnected"
  BY DEF Meeting, Alone, Ready, HCI_WIFI_STATE
<1> DEFINE k == c.proc = "CWJAP_CUR" \/ c.conn = "GotIP"
<1>2. /\ d.conn = "GotIP" => k
      /\ row.post /\ d.proc = "CWJAP_CUR" => s # Alone /\ (d.conn = "Connecting" \/ k)
      /\ ~row.post /\ d.proc = "CWJAP_CUR" => k
  BY <1>0, <1>1 DEF Steps, Meeting, Fit, Posts
<1> HIDE DEF k
<1>3. row.post => ((d.proc = "CWJAP_CUR" \/ d.conn = "GotIP")
                     => s # Alone /\ (s.conn = "Connecting" \/ k))
  BY <1>1, <1>2
<1>4. /\ y \in LinkRule.due => s.conn = "GotIP"
      /\ y \in LinkRule.ends => s = Alone
      /\ s.conn = "Connecting" => y \in LinkRule.makes
      /\ c \in LinkRule.known <=> k
      /\ d \in LinkRule.known <=> (d.proc = "CWJAP_CUR" \/ d.conn = "GotIP")
  <2>1. y \in Message
    BY DEF Message
  <2> QED BY <1>1, <2>1 DEF LinkRule, k
<1> QED BY <1>1, <1>2, <1>3, <1>4 DEF Follows

(* ... that of the socket ...                                              *)
LEMMA SocketLine ==
  ASSUME NEW c \in Ctx, NEW at, NEW d \in Ctx, NEW row, NEW s \in State,
         Meeting(c, at, d, row, s), NEW y, y = [head |-> "HciWiFiState", state |-> s]
  PROVE  Follows(SocketRule, c, d, y, row.post)
<1>0. Steps(c, at, d)
  BY TakesSteps DEF Meeting
<1>1. y.head = "HciWiFiState" /\ y.state = s /\ s.sckt = d.sckt
  BY DEF Meeting
<1> DEFINE k == c.sckt = "Opened" /\ c.proc # "CIPSTART"
<1>2. ~row.post /\ d.sckt = "Opened" /\ d.proc # "CIPSTART" => k
  BY <1>0 DEF Steps, Meeting, Posts
<1>4. /\ y \notin SocketRule.due
      /\ y \in SocketRule.ends => s.sckt = "Closed"
      /\ s.sckt = "Opened" => y \in SocketRule.makes
      /\ c \in SocketRule.known <=> k
      /\ d \in SocketRule.known <=> (d.sckt = "Opened" /\ d.proc # "CIPSTART")
  <2>1. y \in Message
    BY DEF Message
  <2> QED BY <1>1, <2>1 DEF SocketRule
<1> HIDE DEF k
<1> QED BY <1>1, <1>2, <1>4 DEF Follows

(* ... and that of the opening.                                            *)
LEMMA OpeningLine ==
  ASSUME NEW c \in Ctx, NEW at, NEW d \in Ctx, NEW row, NEW s \in State,
         Meeting(c, at, d, row, s), NEW y, y = [head |-> "HciWiFiState", state |-> s]
  PROVE  Follows(OpeningRule, c, d, y, row.post)
<1>0. Steps(c, at, d)
  BY TakesSteps DEF Meeting
<1>1. y.head = "HciWiFiState" /\ y.state = s /\ s.sckt = d.sckt /\ s.conn = d.conn
  BY DEF Meeting
<1> DEFINE k == c.proc = "CIPSTART" \/ c.sckt \in {"Opening", "Opened"}
           l == d.proc = "CIPSTART" \/ d.sckt \in {"Opening", "Opened"}
<1>2. ~row.post /\ l => k
  BY <1>0 DEF Steps, Meeting, Posts
<1>3. row.post /\ l => s.sckt = "Opening" \/ k
  BY <1>0, <1>1 DEF Steps, Meeting, Posts
<1>5. row.post /\ l => ~JoinedLike(s)
  BY <1>0, <1>1 DEF Steps, Meeting, Posts, JoinedLike, Fit
<1>4. /\ y \notin OpeningRule.due
      /\ y \in OpeningRule.ends => JoinedLike(s)
      /\ s.sckt = "Opening" => y \in OpeningRule.makes
      /\ c \in OpeningRule.known <=> k
      /\ d \in OpeningRule.known <=> l
  <2>1. y \in Message
    BY DEF Message
  <2> QED BY <1>1, <2>1 DEF OpeningRule
<1> HIDE DEF k, l
<1> QED BY <1>1, <1>2, <1>3, <1>4, <1>5 DEF Follows

-----------------------------------------------------------------------------
(* What a message does, by its kind.                                       *)

ByLine(msg) ==
  /\ msg.head = "ATCmd"
  /\ \E row \in RowsFor(msg.line.at) : HciWiFiATCoP(msg.line, row)
  /\ Calm(hci, hci') /\ Talks /\ cmds' = cmds

ByState(msg) ==
  /\ msg.head = "HciWiFiState" /\ msg.state \in State
  /\ Undisturbed(msg.state) \/ Lost(msg.state) \/ Made(msg.state) \/ OpenedUp(msg.state)
  /\ msg.state.conn = "Connecting" => HasConn
  /\ mail' = Tail(mail) /\ Now' = Now

ByOther(msg) ==
  /\ msg.head \notin {"ATCmd", "HciWiFiState"}
  /\ Calm(hci, hci') /\ Talks
  /\ mail' = Tail(mail) /\ Now' = Now

(* Every message of the HCI task is one of these three.                    *)
LEMMA MessageEffect ==
  ASSUME IInv, HciMessage
  PROVE  /\ mail # << >> /\ Head(mail) \in Message /\ mail \in Seq(Message)
         /\ ByLine(Head(mail)) \/ ByState(Head(mail)) \/ ByOther(Head(mail))
         /\ cmds' = cmds \/ \E c : cmds' = Append(cmds, c) /\ c.at # "AT+CIPSTART"
<1> DEFINE msg == Head(mail)
<1>1. /\ Core /\ mail \in Seq(Message) /\ hci \in HciType
  BY Parts, Zenon DEF IInv, Typed, Firmware
<1>2. mail # << >> /\ FailedByMsg(msg) = {} /\ ProcessOsalMsg(msg)
  BY Zenon DEF HciMessage
<1>3. msg \in Message
  BY <1>1, <1>2
<1> HIDE DEF msg
<1>4. CASE msg.head = "ATCmd" /\ \E row \in RowsFor(msg.line.at) : HciWiFiATCoP(msg.line, row)
  <2>1. Calm(hci, hci') /\ Talks /\ cmds' = cmds
    BY <1>1, <1>4, LineCalm, Zenon
  <2> QED BY <1>1, <1>2, <1>3, <1>4, <2>1, Zenon DEF ByLine, msg
<1>5. CASE ~(msg.head = "ATCmd" /\ \E row \in RowsFor(msg.line.at) : HciWiFiATCoP(msg.line, row))
  <2>1. /\ \/ msg.head = "HciWiFiState" /\ ProcessHciState(msg.state)
           \/ msg.head = "RxDataStream" /\ ProcessRxDataStream(msg.data)
           \/ msg.head = "TxDataStream" /\ ProcessTxDataStream(msg.len)
           \/ msg.head = "Update" /\ PairingUpdate(msg.credential)
        /\ mail' = Tail(mail)
        /\ UNCHANGED atVars
    BY <1>2, <1>5, Zenon DEF ProcessOsalMsg
  <2>2. Now' = Now
    BY <2>1 DEF atVars, Now
  <2>3. CASE msg.head = "HciWiFiState" /\ ProcessHciState(msg.state)
    <3>1. msg.state \in State
      BY <1>3, <2>3 DEF Message
    <3>2. FailedByState(msg.state) = {}
      BY <1>2, <2>3 DEF FailedByMsg
    <3>3. Undisturbed(msg.state) \/ Lost(msg.state) \/ Made(msg.state) \/ OpenedUp(msg.state)
      BY <1>1, <2>3, <3>1, <3>2, PostEffect, Zenon
    <3>4. msg.state.conn = "Connecting" => HasConn
      BY <3>1, <3>2, AskedFor, Zenon
    <3>5. cmds' = cmds \/ \E c : cmds' = Append(cmds, c) /\ c.at # "AT+CIPSTART"
      BY <2>3, PostCommands, Zenon
    <3> QED BY <1>1, <1>2, <1>3, <2>1, <2>2, <2>3, <3>1, <3>3, <3>4, <3>5, Zenon
         DEF ByState, msg
  <2>4. CASE msg.head = "RxDataStream" /\ ProcessRxDataStream(msg.data)
    <3>1. Calm(hci, hci') /\ Talks /\ cmds' = cmds
      BY <1>1, <2>4, RxCalm, Zenon
    <3>2. msg.head \notin {"ATCmd", "HciWiFiState"}
      BY <2>4
    <3> QED BY <1>1, <1>2, <1>3, <2>1, <2>2, <3>1, <3>2, Zenon DEF ByOther, msg
  <2>5. CASE msg.head = "TxDataStream" /\ ProcessTxDataStream(msg.len)
    <3>0. msg.len \in Nat
      BY <1>3, <2>5 DEF Message
    <3>1. Calm(hci, hci') /\ Talks /\ \E c : cmds' = Append(cmds, c) /\ c.at = "data"
      BY <1>1, <2>5, <3>0, TxCalm, Zenon
    <3>2. msg.head \notin {"ATCmd", "HciWiFiState"}
      BY <2>5
    <3>3. \E c : cmds' = Append(cmds, c) /\ c.at # "AT+CIPSTART"
      BY <3>1
    <3> QED BY <1>1, <1>2, <1>3, <2>1, <2>2, <3>1, <3>2, <3>3, Zenon DEF ByOther, msg
  <2>6. CASE msg.head = "Update" /\ PairingUpdate(msg.credential)
    <3>1. Calm(hci, hci') /\ Talks /\ cmds' = cmds
      BY <1>1, <2>6, UpdateCalm, Zenon
    <3>2. msg.head \notin {"ATCmd", "HciWiFiState"}
      BY <2>6
    <3> QED BY <1>1, <1>2, <1>3, <2>1, <2>2, <3>1, <3>2, Zenon DEF ByOther, msg
  <2> QED BY <2>1, <2>3, <2>4, <2>5, <2>6
<1> QED BY <1>4, <1>5

-----------------------------------------------------------------------------
(* The chains hold.                                                        *)

(* Message kinds that no rule is about.                                    *)
LEMMA NoRule ==
  ASSUME NEW x, x.head \notin {"HciWiFiState"}
  PROVE  /\ x \notin LinkRule.due /\ x \notin LinkRule.ends /\ x \notin LinkRule.makes
         /\ x \notin SocketRule.ends /\ x \notin SocketRule.makes
         /\ x.head # "RxDataStream" => x \notin SocketRule.due
         /\ x \notin OpeningRule.due /\ x \notin OpeningRule.ends /\ x \notin OpeningRule.makes
BY DEF LinkRule, SocketRule, OpeningRule

(* The current state may be forgotten, but no socket appears in it.        *)
LEMMA StillApart ==
  ASSUME NEW s \in State, NEW t \in State, Alike(s, t) \/ Alike(Zero, t)
  PROVE  s \in OpeningRule.holds => t \in OpeningRule.holds
BY StateParts DEF OpeningRule, Alike, JoinedLike

(* The chains after a posted state.                                        *)
LEMMA ChainsAfterState ==
  ASSUME IInv, hci' \in HciType, Chains, mail # << >>, ByState(Head(mail))
  PROVE  Chains'
<1> DEFINE x == Head(mail)
           s == Head(mail).state
<1>1. /\ mail \in Seq(Message) /\ x \in Message /\ x.head = "HciWiFiState" /\ s \in State
      /\ Undisturbed(s) \/ Lost(s) \/ Made(s) \/ OpenedUp(s)
      /\ s.conn = "Connecting" => HasConn
      /\ mail' = Tail(mail) /\ Now' = Now
  <2>1. mail \in Seq(Message)
    BY Zenon DEF IInv, Typed, Firmware
  <2>2. Head(mail) \in Message
    BY <2>1
  <2> QED BY <2>1, <2>2, Zenon DEF ByState, x, s
<1>2. x.state = s
  OBVIOUS
<1>3. hci \in HciType
  BY Zenon DEF IInv, Typed, Firmware
<1> HIDE DEF x, s
<1>4. hci.curState \in State /\ hci'.curState \in State
  BY <1>3 DEF HciType, State
<1>5. /\ x \in LinkRule.makes => s.conn = "Connecting"
      /\ s = Alone => x \in LinkRule.ends
      /\ x \in SocketRule.makes => s.sckt = "Opened"
      /\ s.sckt = "Closed" => x \in SocketRule.ends
      /\ x \in OpeningRule.makes => s.sckt = "Opening"
      /\ JoinedLike(s) => x \in OpeningRule.ends
  BY <1>1, <1>2 DEF LinkRule, SocketRule, OpeningRule
<1>6. /\ LinkRule.holds = {"Connecting", "Connected"} /\ SocketRule.holds = {"Opened"}
      /\ OpeningRule.holds = {t \in State : ~JoinedLike(t)}
  BY DEF LinkRule, SocketRule, OpeningRule
<1>7. /\ Alone.sckt = "Closed" /\ Joined.sckt = "Closed" /\ Online.sckt = "Opened"
      /\ Alone.conn = "Disconnected" /\ Joined.conn = "GotIP" /\ Online.conn = "GotIP"
      /\ Joined # Alone /\ Online # Alone /\ Zero.dev = "Off"
  BY StateParts
<1>8. HasConn => hci.pConnInitStruct \in {"Connecting", "Connected"}
  BY <1>3 DEF HasConn, HciType
<1>9. /\ x \in LinkRule.makes => hci'.pConnInitStruct \in LinkRule.holds
      /\ hci.pConnInitStruct \in LinkRule.holds /\ x \notin LinkRule.ends
           => hci'.pConnInitStruct \in LinkRule.holds
  BY <1>1, <1>5, <1>6, <1>7, <1>8 DEF Undisturbed, Lost, Made, OpenedUp, HasConn
<1>10. /\ x \in SocketRule.makes => hci'.pSocketInitStruct \in SocketRule.holds
       /\ hci.pSocketInitStruct \in SocketRule.holds /\ x \notin SocketRule.ends
            => hci'.pSocketInitStruct \in SocketRule.holds
  BY <1>1, <1>5, <1>6, <1>7 DEF Undisturbed, Lost, Made, OpenedUp, Passing
<1>11. Alike(hci'.curState, s) \/ Alike(hci'.curState, Zero)
  BY <1>1 DEF Undisturbed, Lost, Made, OpenedUp
<1>12. ~JoinedLike(s) => ~JoinedLike(hci'.curState)
  BY <1>7, <1>11 DEF Alike, JoinedLike
<1>13. /\ x \in OpeningRule.makes => hci'.curState \in OpeningRule.holds
       /\ hci.curState \in OpeningRule.holds /\ x \notin OpeningRule.ends
            => hci'.curState \in OpeningRule.holds
  <2>1. x \in OpeningRule.makes => ~JoinedLike(s)
    BY <1>5 DEF JoinedLike
  <2> QED BY <1>4, <1>5, <1>6, <1>12, <2>1
<1>14. Chain(LinkRule, Tail(mail), hci'.pConnInitStruct, Now)
  BY <1>1, <1>9, ChainTail, Zenon DEF Chains, x
<1>15. Chain(SocketRule, Tail(mail), hci'.pSocketInitStruct, Now)
  BY <1>1, <1>10, ChainTail, Zenon DEF Chains, x
<1>16. Chain(OpeningRule, Tail(mail), hci'.curState, Now)
  BY <1>1, <1>13, ChainTail, Zenon DEF Chains, x
<1> QED BY <1>1, <1>14, <1>15, <1>16 DEF Chains

(* A message that is no posted state.                                      *)
LEMMA ChainsPast ==
  ASSUME IInv, NEW h \in HciType, Chains, mail # << >>, Head(mail).head # "HciWiFiState",
         Calm(hci, h)
  PROVE  /\ Chain(LinkRule, Tail(mail), h.pConnInitStruct, Now)
         /\ Chain(SocketRule, Tail(mail), h.pSocketInitStruct, Now)
         /\ Chain(OpeningRule, Tail(mail), h.curState, Now)
<1>1. mail \in Seq(Message) /\ hci \in HciType
  BY Zenon DEF IInv, Typed, Firmware
<1>2. hci.curState \in State /\ h.curState \in State
  BY <1>1 DEF HciType, State
<1>3. h.pConnInitStruct = hci.pConnInitStruct /\ h.pSocketInitStruct = hci.pSocketInitStruct
      /\ Alike(hci.curState, h.curState)
  BY DEF Calm, Keeps
<1>4. hci.curState \in OpeningRule.holds => h.curState \in OpeningRule.holds
  BY <1>2, <1>3, StillApart
<1>5. /\ Head(mail) \notin LinkRule.makes /\ Head(mail) \notin SocketRule.makes
      /\ Head(mail) \notin OpeningRule.makes
  BY NoRule
<1> QED BY <1>1, <1>3, <1>4, <1>5, ChainTail, Zenon DEF Chains

(* The chains after data or a credential.                                  *)
LEMMA ChainsAfterOther ==
  ASSUME IInv, hci' \in HciType, Chains, mail # << >>, ByOther(Head(mail))
  PROVE  Chains'
<1>1. Head(mail).head # "HciWiFiState" /\ Calm(hci, hci') /\ mail' = Tail(mail) /\ Now' = Now
  BY DEF ByOther
<1> QED BY <1>1, ChainsPast DEF Chains

(* What a line posts besides the state.                                    *)
LEMMA PostedParts ==
  ASSUME NEW line \in Line, txLen \in Nat
  PROVE  \/ Posted(line) = << >>
         \/ \E x \in Message : /\ Posted(line) = <<x>> /\ x.head # "HciWiFiState"
                               /\ x.head = "RxDataStream" => line.at = "+IPD"
<1>1. CASE line.at = "+IPD"
  <2> DEFINE x == [head |-> "RxDataStream", data |-> line.data]
  <2>1. x \in Message /\ x.head = "RxDataStream"
    BY <1>1 DEF Line, Plain, Sending, Orders, Answers, Message
  <2>2. Posted(line) = <<x>>
    BY <1>1 DEF Posted
  <2> QED BY <1>1, <2>1, <2>2
<1>2. CASE line.at # "+IPD"
  <2> DEFINE x == [head |-> "Update", credential |-> "ssid"]
             y == [head |-> "Update", credential |-> "passwd"]
             z == [head |-> "TxDataStream", len |-> txLen]
  <2>1. x \in Message /\ y \in Message /\ z \in Message
        /\ x.head = "Update" /\ y.head = "Update" /\ z.head = "TxDataStream"
    BY DEF Message, Credentials
  <2>2. Posted(line) \in {<< >>, <<x>>, <<y>>, <<z>>}
    BY <1>2 DEF Posted
  <2> QED BY <2>1, <2>2
<1> QED BY <1>1, <1>2

(* The context is one of those the tables know.                            *)
LEMMA NowCtx == (Typed => Now \in Ctx) /\ (Typed' => Now' \in Ctx)
<1>1. ASSUME hciWiFiState \in State, pfnATCmdProcessor \in Processors
      PROVE  Now \in Ctx
  BY <1>1 DEF Now, Ctx, State
<1>2. ASSUME hciWiFiState' \in State, pfnATCmdProcessor' \in Processors
      PROVE  Now' \in Ctx
  BY <1>2 DEF Now, Ctx, State
<1> QED BY <1>1, <1>2, Zenon DEF Typed, Firmware

(* A row says whether it posts.                                            *)
LEMMA RowsBoolean ==
  ASSUME errReason \in BOOLEAN, NEW at, NEW row \in RowsFor(at)
  PROVE  row.post \in BOOLEAN
<1>1. \A p, a, n, c, b : row = Row(p, a, n, c, b) => row.post = b
  BY RowParts
<1>2. row \in Replies \/ row \in Unasked \/ row \in Echoes
  BY Zenon DEF RowsFor, RowsIn
<1>3. row.post \in {TRUE, FALSE, errReason}
  BY <1>1, <1>2, Zenon
     DEF Replies, JoinReplies, SmartReplies, OpenReplies, OtherReplies, SmartConfigLines,
         TxReplies, Unasked, Generic, Echoes
<1> QED BY <1>3, Zenon

(* One message more.                                                       *)
LEMMA AddOne == \A m \in Seq(Message), x \in Message : m \o <<x>> = Append(m, x)
OBVIOUS

(* The chains after a line.  Posts of RowsPost and steps of LineTakes are  *)
(* what LinkLine, SocketLine and OpeningLine ask for.                      *)
LEMMA ChainsAfterLine ==
  ASSUME IInv, IInv', Chains, Foreseen, mail # << >>, ByLine(Head(mail))
  PROVE  Chains'
<1> DEFINE line == Head(mail).line
           at == line.at
           s == hciWiFiState'
           y == [head |-> "HciWiFiState", state |-> s]
<1>1. /\ mail \in Seq(Message) /\ hci \in HciType /\ hci' \in HciType /\ txLen \in Nat
      /\ s \in State
      /\ Typed
  BY Zenon DEF IInv, Typed, Firmware, s
<1>2. /\ Head(mail).head = "ATCmd" /\ Calm(hci, hci')
      /\ \E row \in RowsFor(at) : HciWiFiATCoP(line, row)
  BY Zenon DEF ByLine, at, line
<1>3. PICK row \in RowsFor(at) : HciWiFiATCoP(line, row)
  BY <1>2
<1>4. Head(mail) \in Message
  BY <1>1
<1>5. line \in Line
  BY <1>2, <1>4 DEF Message
<1>6. Now \in Ctx /\ Now' \in Ctx
  <2>1. Typed'
    BY DEF IInv
  <2> QED BY <1>1, <2>1, NowCtx, Zenon
<1>7. Takes(Now, at, Now')
  BY <1>1, <1>3, LineTakes, Zenon DEF at
<1>8. Fit(Now, at)
  BY <1>1, <1>2, <1>6, MailFits, Zenon DEF Foreseen, at, line
<1>9. Posts(row, at)
  BY RowsPost
<1>10. Meeting(Now, at, Now', row, s)
  <2>1. row.proc = Now.proc /\ row.next = Now'.proc
    BY <1>3 DEF RowsFor, RowsIn, HciWiFiATCoP, Now
  <2>2. s.conn = Now'.conn /\ s.sckt = Now'.sckt
    BY DEF Now
  <2>3. at = "ready" => s.dev = "Initializing"
    <3>1. hciWiFiState \in State /\ s = Changed(hciWiFiState, row.change)
      BY <1>1, <1>3, Zenon DEF HciWiFiATCoP, Typed, Firmware, s
    <3>2. \A t \in State : Changed(t, Dev("Initializing")).dev = "Initializing"
      BY DEF Changed, Dev, State
    <3> QED BY <1>9, <3>1, <3>2 DEF Posts
  <2> QED BY <1>7, <1>8, <1>9, <2>1, <2>2, <2>3, Zenon DEF Meeting
<1>11. row.post \in BOOLEAN
  <2>1. errReason \in BOOLEAN
    BY <1>1, Zenon DEF Typed, Flags
  <2> QED BY <2>1, RowsBoolean, Zenon
<1>12. /\ Follows(LinkRule, Now, Now', y, row.post) /\ Follows(SocketRule, Now, Now', y, row.post)
       /\ Follows(OpeningRule, Now, Now', y, row.post)
  BY <1>1, <1>6, <1>10, LinkLine, SocketLine, OpeningLine, Zenon DEF y
<1>13. y \in Message
  BY <1>1 DEF Message
<1> DEFINE q == IF row.post THEN <<y>> ELSE << >>
<1>14. mail' = Tail(mail) \o Posted(line) \o q
  BY <1>3 DEF HciWiFiATCoP
<1>15. Tail(mail) \in Seq(Message)
  BY <1>1
<1>16. ASSUME NEW r, NEW v, Chain(r, Tail(mail), v, Now),
              \A x \in Message : x.head # "HciWiFiState" => x \notin r.ends,
              \A x \in Message : x \in r.due /\ x.head # "HciWiFiState" => x.head = "RxDataStream",
              at = "+IPD" /\ (\E x \in r.due : x.head = "RxDataStream") => Now \in r.known,
              Follows(r, Now, Now', y, row.post)
       PROVE  Chain(r, mail', v, Now')
  <2> DEFINE n == Tail(mail) \o Posted(line)
  <2>1. Chain(r, n, v, Now) /\ n \in Seq(Message)
    <3>1. CASE Posted(line) = << >>
      <4>1. n = Tail(mail)
        BY <1>15, <3>1
      <4> QED BY <1>15, <1>16, <4>1
    <3>2. CASE Posted(line) # << >>
      <4>1. PICK x \in Message : /\ Posted(line) = <<x>> /\ x.head # "HciWiFiState"
                                 /\ x.head = "RxDataStream" => line.at = "+IPD"
        BY <1>1, <1>5, <3>2, PostedParts, Zenon
      <4>2. n = Append(Tail(mail), x)
        BY <1>15, <4>1, AddOne, Zenon
      <4>3. x \notin r.ends /\ (x \in r.due => Now \in r.known)
        BY <1>16, <4>1
      <4> HIDE DEF n
      <4>4. Chain(r, Append(Tail(mail), x), v, Now)
        BY <1>15, <1>16, <4>3, ChainPost, Zenon
      <4> QED BY <1>15, <4>2, <4>4
    <3> QED BY <3>1, <3>2
  <2> HIDE DEF n, y
  <2>2. Chain(r, n \o q, v, Now')
    BY <1>11, <1>13, <1>16, <2>1, ChainMore, Zenon DEF q
  <2> QED BY <1>14, <2>2 DEF n
<1> HIDE DEF line, at, s, y, q
<1>17. /\ Chain(LinkRule, Tail(mail), hci'.pConnInitStruct, Now)
       /\ Chain(SocketRule, Tail(mail), hci'.pSocketInitStruct, Now)
       /\ Chain(OpeningRule, Tail(mail), hci'.curState, Now)
  <2>1. Head(mail).head # "HciWiFiState"
    BY <1>2
  <2> QED BY <1>1, <1>2, <2>1, ChainsPast, Zenon
<1>18. Chain(LinkRule, mail', hci'.pConnInitStruct, Now')
  <2>1. /\ \A x \in Message : x.head # "HciWiFiState" => x \notin LinkRule.ends
        /\ \A x \in Message : x.head # "HciWiFiState" => x \notin LinkRule.due
        /\ \A x \in LinkRule.due : x.head # "RxDataStream"
    BY DEF LinkRule
  <2> QED BY <1>12, <1>16, <1>17, <2>1, Zenon
<1>19. Chain(SocketRule, mail', hci'.pSocketInitStruct, Now')
  <2>1. /\ \A x \in Message : x.head # "HciWiFiState" => x \notin SocketRule.ends
        /\ \A x \in Message : x \in SocketRule.due => x.head = "RxDataStream"
    BY DEF SocketRule
  <2>2. at = "+IPD" => Now \in SocketRule.known
    BY <1>6, <1>8 DEF Fit, SocketRule
  <2> QED BY <1>12, <1>16, <1>17, <2>1, <2>2, Zenon
<1>20. Chain(OpeningRule, mail', hci'.curState, Now')
  <2>1. /\ \A x \in Message : x.head # "HciWiFiState" => x \notin OpeningRule.ends
        /\ \A x : x \notin OpeningRule.due
    BY DEF OpeningRule
  <2> QED BY <1>12, <1>16, <1>17, <2>1, Zenon
<1> QED BY <1>18, <1>19, <1>20 DEF Chains

-----------------------------------------------------------------------------
(* The module speaks.                                                      *)

(* Wherever in E word a is met, it fits, and F is where it leads.          *)
Hear(E, a, F) ==
  \A c \in E : Fit(c, a) /\ \A d \in Ctx : Takes(c, a, d) => d \in F

(* A line more is heard where the paths of the wire end.                   *)
LEMMA HearOne ==
  ASSUME NEW d \in Ctx, NEW w \in Seq(Line), NEW E \in SUBSET Ctx, NEW F, NEW x,
         WireFit(d, w, E), Hear(E, x.at, F)
  PROVE  WireFit(d, Append(w, x), F)
<1>1. \A c \in E : Fit(c, x.at)
  BY DEF Hear
<1>2. Beyond(E, x.at) \subseteq F
  BY DEF Hear, Beyond
<1>3. WireFit(d, Append(w, x), Beyond(E, x.at))
  BY <1>1, WireMore
<1> QED BY <1>2, <1>3, WireWeaker

(* What is said, line by line.                                             *)
LEMMA WordsAreLines == \A a \in Words : AT(a) \in Line /\ AT(a).at = a
BY DEF AT, Words, Line, Plain

(* The lines of one, two or three words, one by one.                       *)
LEMMA SayLines ==
  ASSUME NEW w \in Seq(Line), NEW a \in Words
  PROVE  /\ w \o [i \in 1 .. Len(<<a>>) |-> AT(<<a>>[i])] = Append(w, AT(a))
         /\ \A b \in Words :
              w \o [i \in 1 .. Len(<<a, b>>) |-> AT(<<a, b>>[i])] = Append(Append(w, AT(a)), AT(b))
         /\ \A b, c \in Words :
              w \o [i \in 1 .. Len(<<a, b, c>>) |-> AT(<<a, b, c>>[i])]
                = Append(Append(Append(w, AT(a)), AT(b)), AT(c))
<1>1. \A v \in Words : AT(v) \in Line
  BY WordsAreLines
<1>2. /\ \A x \in Line : w \o <<x>> = Append(w, x)
      /\ \A x, y \in Line : w \o <<x, y>> = Append(Append(w, x), y)
      /\ \A x, y, z \in Line : w \o <<x, y, z>> = Append(Append(Append(w, x), y), z)
  <2>1. \A x \in Line : w \o <<x>> = Append(w, x)
    OBVIOUS
  <2>2. ASSUME NEW x \in Line, NEW y \in Line PROVE w \o <<x, y>> = Append(Append(w, x), y)
    <3> DEFINE s == w \o <<x, y>>
               t == Append(Append(w, x), y)
    <3>1. s \in Seq(Line) /\ t \in Seq(Line) /\ Len(s) = Len(w) + 2 /\ Len(t) = Len(w) + 2
      OBVIOUS
    <3>2. \A i \in 1 .. Len(w) + 2 : s[i] = t[i]
      OBVIOUS
    <3> HIDE DEF s, t
    <3>3. s = t
      BY <3>1, <3>2, SeqEqual
    <3> QED BY <3>3 DEF s, t
  <2>3. ASSUME NEW x \in Line, NEW y \in Line, NEW z \in Line
        PROVE  w \o <<x, y, z>> = Append(Append(Append(w, x), y), z)
    <3> DEFINE s == w \o <<x, y, z>>
               t == Append(Append(Append(w, x), y), z)
    <3>1. s \in Seq(Line) /\ t \in Seq(Line) /\ Len(s) = Len(w) + 3 /\ Len(t) = Len(w) + 3
      OBVIOUS
    <3>2. \A i \in 1 .. Len(w) + 3 : s[i] = t[i]
      OBVIOUS
    <3> HIDE DEF s, t
    <3>3. s = t
      BY <3>1, <3>2, SeqEqual
    <3> QED BY <3>3 DEF s, t
  <2> QED BY <2>1, <2>2, <2>3
<1>3. [i \in 1 .. Len(<<a>>) |-> AT(<<a>>[i])] = <<AT(a)>>
  BY <1>1
<1>4. \A b \in Words : [i \in 1 .. Len(<<a, b>>) |-> AT(<<a, b>>[i])] = <<AT(a), AT(b)>>
  BY <1>1
<1>5. \A b, c \in Words :
        [i \in 1 .. Len(<<a, b, c>>) |-> AT(<<a, b, c>>[i])] = <<AT(a), AT(b), AT(c)>>
  BY <1>1
<1>6. w \o [i \in 1 .. Len(<<a>>) |-> AT(<<a>>[i])] = Append(w, AT(a))
  <2>1. w \o <<AT(a)>> = Append(w, AT(a))
    BY <1>1, <1>2
  <2> QED BY <1>3, <2>1, Zenon
<1>7. ASSUME NEW b \in Words
      PROVE  w \o [i \in 1 .. Len(<<a, b>>) |-> AT(<<a, b>>[i])] = Append(Append(w, AT(a)), AT(b))
  <2>1. w \o <<AT(a), AT(b)>> = Append(Append(w, AT(a)), AT(b))
    BY <1>1, <1>2
  <2> QED BY <1>4, <2>1, Zenon
<1>8. ASSUME NEW b \in Words, NEW c \in Words
      PROVE  w \o [i \in 1 .. Len(<<a, b, c>>) |-> AT(<<a, b, c>>[i])]
               = Append(Append(Append(w, AT(a)), AT(b)), AT(c))
  <2>1. w \o <<AT(a), AT(b), AT(c)>> = Append(Append(Append(w, AT(a)), AT(b)), AT(c))
    BY <1>1, <1>2
  <2> QED BY <1>5, <2>1, Zenon
<1> QED BY <1>6, <1>7, <1>8

(* The wire behind one, two or three words more.                           *)
LEMMA SayOne ==
  ASSUME wire \in Seq(Line), NEW a \in Words, Say(<<a>>), NEW E \in SUBSET Ctx, NEW F,
         Hear(E, a, F)
  PROVE  \A d \in Ctx : WireFit(d, wire, E) => WireFit(d, wire', F)
<1>1. wire' = Append(wire, AT(a)) /\ AT(a).at = a
  BY SayLines, WordsAreLines, Zenon DEF Say
<1> QED BY <1>1, HearOne

(* ... two ...                                                             *)
LEMMA SayTwo ==
  ASSUME wire \in Seq(Line), NEW a \in Words, NEW b \in Words, Say(<<a, b>>),
         NEW E \in SUBSET Ctx, NEW M \in SUBSET Ctx, NEW F, Hear(E, a, M), Hear(M, b, F)
  PROVE  \A d \in Ctx : WireFit(d, wire, E) => WireFit(d, wire', F)
<1> DEFINE v == Append(wire, AT(a))
<1>1. wire' = Append(v, AT(b)) /\ AT(a).at = a /\ AT(b).at = b /\ AT(a) \in Line
  BY SayLines, WordsAreLines, Zenon DEF Say
<1>2. v \in Seq(Line)
  BY <1>1
<1>3. \A d \in Ctx : WireFit(d, wire, E) => WireFit(d, v, M)
  BY <1>1, HearOne
<1> HIDE DEF v
<1>4. \A d \in Ctx : WireFit(d, v, M) => WireFit(d, Append(v, AT(b)), F)
  BY <1>1, <1>2, HearOne
<1> QED BY <1>1, <1>3, <1>4

(* ... or three words more.                                                *)
LEMMA SayThree ==
  ASSUME wire \in Seq(Line), NEW a \in Words, NEW b \in Words, NEW c \in Words,
         Say(<<a, b, c>>), NEW E \in SUBSET Ctx, NEW M \in SUBSET Ctx, NEW N \in SUBSET Ctx,
         NEW F, Hear(E, a, M), Hear(M, b, N), Hear(N, c, F)
  PROVE  \A d \in Ctx : WireFit(d, wire, E) => WireFit(d, wire', F)
<1> DEFINE v == Append(wire, AT(a))
           u == Append(v, AT(b))
<1>1. wire' = Append(u, AT(c)) /\ AT(a).at = a /\ AT(b).at = b /\ AT(c).at = c
      /\ AT(a) \in Line /\ AT(b) \in Line
  BY SayLines, WordsAreLines, Zenon DEF Say
<1>2. v \in Seq(Line)
  BY <1>1
<1>3. \A d \in Ctx : WireFit(d, wire, E) => WireFit(d, v, M)
  BY <1>1, HearOne
<1> HIDE DEF v
<1>4. u \in Seq(Line)
  BY <1>1, <1>2
<1>5. \A d \in Ctx : WireFit(d, v, M) => WireFit(d, u, N)
  BY <1>1, <1>2, HearOne
<1> HIDE DEF u
<1>6. \A d \in Ctx : WireFit(d, u, N) => WireFit(d, Append(u, AT(c)), F)
  BY <1>1, <1>4, HearOne
<1> QED BY <1>1, <1>3, <1>5, <1>6

-----------------------------------------------------------------------------
(* The module itself: the server only knows of it while it has a socket,   *)
(* and without power it is as good as new.                                 *)
Servers == {"None", "Accepted", "Asked", "Up", "Due", "CloseDue", "Leaving"}
Works == {"None", "AT+CWJAP_CUR", "AT+CIPSTART", "AT+CIPSEND"}

Module(e) ==
  /\ e \in [power : {"Off", "Booting", "On"}, conn : BOOLEAN, sckt : BOOLEAN,
            busy : Works, smart : {0, 1, 2}, srv : Servers]
  /\ e.srv # "None" => e.sckt
  /\ e.power # "On" => e.busy = "None" /\ e.smart = 0 /\ ~e.sckt

(* What the server makes of data is one of its states.                     *)
LEMMA ServedKnown == \A srv \in Servers : \A units : Served(srv, units) \in Servers
BY DEF Served, Servers

(* The module stays one.                                                   *)
LEMMA ModuleNext ==
  ASSUME Module(esp), NEW caught, EspNext(caught)
  PROVE  Module(esp')
<1>1. CASE Boot
  BY <1>1 DEF Boot, Module
<1>2. CASE ReadCommand
  <2> DEFINE c == Head(cmds)
  <2>1. Execute(c) /\ esp.power = "On" /\ esp.busy = "None"
    BY <1>2 DEF ReadCommand
  <2> HIDE DEF c
  <2>2. \/ esp' = esp
        \/ esp' = [esp EXCEPT !.conn = FALSE]
        \/ esp' = [esp EXCEPT !.smart = 1]
        \/ esp' = [esp EXCEPT !.smart = 0]
        \/ esp' = [esp EXCEPT !.sckt = FALSE, !.srv = "None"]
        \/ esp' = [esp EXCEPT !.busy = "AT+CIPSEND"]
        \/ c.at \in {"AT+CWJAP_CUR", "AT+CIPSTART"} /\ esp' = [esp EXCEPT !.busy = c.at]
    BY <2>1, Zenon DEF Execute
  <2> QED BY <2>1, <2>2 DEF Module, Works, Servers
<1>3. CASE Busy
  BY <1>3 DEF Busy
<1>4. CASE Join
  <2>1. esp.power = "On"
    BY <1>4 DEF Join, Module
  <2>2. \/ esp' = [esp EXCEPT !.busy = "None", !.conn = TRUE]
        \/ esp' = [esp EXCEPT !.busy = "None", !.conn = FALSE]
    BY <1>4 DEF Join
  <2> QED BY <2>1, <2>2 DEF Module, Works
<1>5. CASE Open
  <2>1. esp.power = "On"
    BY <1>5 DEF Open, Module
  <2>2. \/ esp' = [esp EXCEPT !.busy = "None", !.sckt = TRUE, !.srv = "Accepted"]
        \/ esp' = [esp EXCEPT !.busy = "None"]
    BY <1>5 DEF Open
  <2> QED BY <2>1, <2>2 DEF Module, Works, Servers
<1>6. CASE Transmit
  <2>1. esp.power = "On"
    BY <1>6 DEF Transmit, Module
  <2> DEFINE srv == Served(esp.srv, Head(cmds).units)
  <2>2. \/ esp.sckt /\ esp' = [esp EXCEPT !.busy = "None", !.srv = srv]
        \/ esp' = [esp EXCEPT !.busy = "None"]
    BY <1>6 DEF Transmit
  <2>3. srv \in Servers
    BY ServedKnown DEF Module
  <2> HIDE DEF srv
  <2> QED BY <2>1, <2>2, <2>3 DEF Module, Works
<1>7. CASE SmartConfig
  <2>0. esp.smart > 0
    BY <1>7, Zenon DEF SmartConfig
  <2>1. esp.power = "On"
    BY <2>0 DEF Module
  <2>2. \/ esp' = [esp EXCEPT !.smart = 2]
        \/ esp' = [esp EXCEPT !.smart = 0, !.conn = TRUE]
        \/ esp' = [esp EXCEPT !.smart = 0]
    BY <1>7 DEF SmartConfig
  <2> QED BY <2>1, <2>2 DEF Module
<1>8. CASE Unsolicited /\ esp.power = "On"
  <2>1. \/ esp' = esp
        \/ esp.srv # "None" /\ \E srv \in Servers : esp' = [esp EXCEPT !.srv = srv]
        \/ esp' = [esp EXCEPT !.sckt = FALSE, !.srv = "None"]
        \/ esp' = [esp EXCEPT !.conn = FALSE, !.sckt = FALSE, !.srv = "None"]
    <3>1. "Up" \in Servers /\ "Leaving" \in Servers
      BY DEF Servers
    <3>2. \A v \in {"Asked", "Due", "CloseDue", "Up"} : v # "None"
      OBVIOUS
    <3>3. CASE ServerAnswers \/ ServerSends
      BY <3>1, <3>2, <3>3 DEF ServerAnswers, ServerSends
    <3>4. CASE ServerCloses \/ AccessPointLost
      BY <3>4, Zenon DEF ServerCloses, AccessPointLost
    <3> QED BY <1>8, <3>3, <3>4 DEF Unsolicited
  <2> QED BY <1>8, <2>1 DEF Module, Servers
<1> QED
  BY <1>1, <1>2, <1>3, <1>4, <1>5, <1>6, <1>7, <1>8, Zenon DEF EspNext, Answering

(* It stays one with and without power.                                    *)
LEMMA ModulePowered ==
  ASSUME Module(esp)
  PROVE  /\ Module(PoweredUp) /\ Module(EspOff)
         /\ PoweredUp.busy = esp.busy /\ PoweredUp.smart = esp.smart
         /\ PoweredUp.sckt = esp.sckt
<1> DEFINE p == IF esp.power = "Off" THEN "Booting" ELSE esp.power
<1>1. PoweredUp = [esp EXCEPT !.power = p]
  BY DEF PoweredUp
<1>2. p \in {"Off", "Booting", "On"} /\ (p # "On" => esp.power # "On")
  BY DEF Module
<1> HIDE DEF p
<1>3. Module(EspOff)
  BY DEF Module, EspOff, Works, Servers
<1> QED BY <1>1, <1>2, <1>3 DEF Module

-----------------------------------------------------------------------------
(* Whatever the module does, what it says fits what it said before.        *)

(* A socket is asked for at most once at a time.                           *)
Once == \A i, j \in 1 .. Len(cmds) :
          cmds[i].at = "AT+CIPSTART" /\ cmds[j].at = "AT+CIPSTART" => i = j

(* The command that is read was asked for, and only once.                  *)
LEMMA HeadOpens ==
  ASSUME cmds \in Seq(Command), cmds # << >>
  PROVE  /\ HasOpen(Tail(cmds)) => HasOpen(cmds)
         /\ Head(cmds).at = "AT+CIPSTART" => HasOpen(cmds) /\ (Once => ~HasOpen(Tail(cmds)))
<1> DEFINE t == Tail(cmds)
<1>1. Len(t) = Len(cmds) - 1 /\ Len(cmds) \in Nat /\ Len(cmds) > 0 /\ cmds[1] = Head(cmds)
      /\ \A k \in 1 .. Len(t) : t[k] = cmds[k + 1]
  BY HeadTailProperties
<1> HIDE DEF t
<1>2. ASSUME NEW k \in 1 .. Len(t), t[k].at = "AT+CIPSTART"
      PROVE  k + 1 \in 1 .. Len(cmds) /\ k + 1 # 1 /\ cmds[k + 1].at = "AT+CIPSTART"
  BY <1>1, <1>2
<1>3. HasOpen(t) => HasOpen(cmds)
  BY <1>2 DEF HasOpen
<1>4. ASSUME Head(cmds).at = "AT+CIPSTART"
      PROVE  HasOpen(cmds) /\ (Once => ~HasOpen(t))
  <2>1. 1 \in 1 .. Len(cmds) /\ cmds[1].at = "AT+CIPSTART"
    BY <1>1, <1>4
  <2> QED BY <1>2, <2>1 DEF HasOpen, Once
<1> QED BY <1>3, <1>4 DEF t

(* What is known in the end is a context.                                  *)
LEMMA EndsCtx == \A e, c : Ends(e, c) \in SUBSET Ctx
BY DEF Ends

(* The module is switched on.                                              *)
LEMMA BootForeseen ==
  ASSUME Typed, Module(esp), Boot, NEW d \in Ctx, WireFit(d, wire, Ends(esp, cmds))
  PROVE  WireFit(d, wire', Ends(esp', cmds'))
<1> DEFINE open == HasOpen(cmds)
           E == Ends(esp, cmds)
           F == Ends(esp', cmds')
           M == {c \in Ctx : c.proc # "CWJAP_CUR"}
<1>1. wire \in Seq(Line)
  BY Zenon DEF Typed, Serial
<1>2. Say(<<"ready", "WIFI DISCONNECT">>) /\ cmds' = cmds
  BY Zenon DEF Boot
<1>3. esp.busy = "None" /\ esp'.busy = "None" /\ esp'.smart = 0 /\ ~esp'.sckt
  BY DEF Boot, Module
<1>4. Hear(E, "ready", M)
  BY <1>3 DEF Hear, Ends, Fits, Fit, Takes, JoinTakes, SmartTakes, OpenTakes,
         OtherTakes, AnyTakes, EchoTakes, Is
<1>5. Hear(M, "WIFI DISCONNECT", F)
  <2>1. \A c \in Ctx : c.proc # "CWJAP_CUR" => c \in F
    BY <1>3 DEF Ends, Fits
  <2> HIDE DEF F
  <2> QED BY <2>1 DEF Hear, Fit, Takes, JoinTakes, SmartTakes, OpenTakes,
         OtherTakes, AnyTakes, EchoTakes, Is
<1>6. E \in SUBSET Ctx /\ M \in SUBSET Ctx
  BY EndsCtx
<1> HIDE DEF E, F, M
<1>7. WireFit(d, wire, E) => WireFit(d, wire', F)
  BY <1>1, <1>2, <1>4, <1>5, <1>6, SayTwo, WordsKnown, Zenon
<1> QED BY <1>7 DEF E, F

(* Two lines that are no words.                                            *)
LEMMA TwoLines ==
  ASSUME NEW w \in Seq(Line), NEW x \in Line, NEW y \in Line
  PROVE  w \o <<x, y>> = Append(Append(w, x), y)
<1> DEFINE s == w \o <<x, y>>
           t == Append(Append(w, x), y)
<1>1. s \in Seq(Line) /\ t \in Seq(Line) /\ Len(s) = Len(w) + 2 /\ Len(t) = Len(w) + 2
  OBVIOUS
<1>2. \A i \in 1 .. Len(w) + 2 : s[i] = t[i]
  OBVIOUS
<1> HIDE DEF s, t
<1>3. s = t
  BY <1>1, <1>2, SeqEqual
<1> QED BY <1>3 DEF s, t

(* With no long command under way the firmware may be anywhere but in one: *)
(* within SmartConfig if the module is, and aware of a socket that is open.*)
(* Facts about the module are given as the set f of those that are true.   *)
Listening(f) ==
  {c \in Ctx : /\ c.proc # "CWJAP_CUR"
               /\ "smart" \in f => c.proc = "SmartConfig"
               /\ "up" \in f => c.sckt = "Opened" /\ c.proc # "CIPSTART" /\ "open" \notin f}

(* At work on a command: that excludes SmartConfig.                        *)
At(p, f) ==
  {c \in Ctx : /\ c.proc = p /\ "smart" \notin f
               /\ "up" \in f => c.sckt = "Opened" /\ "open" \notin f}

(* What the echo of a command means where it is met.                       *)
LEMMA EchoesMean ==
  ASSUME NEW c, NEW d
  PROVE  /\ Takes(c, "AT+CWMODE_CUR", d)
              => c.proc = "NULL" /\ d.proc = "CWMODE_CUR" /\ d.sckt = c.sckt
         /\ Takes(c, "AT+CWQAP", d)
              => c.proc \in {"NULL", "CWQAP"} /\ d.proc = "CWQAP" /\ d.sckt = c.sckt
         /\ Takes(c, "AT+CWSTARTSMART", d)
              => c.proc = "NULL" /\ d.proc = "CWSTARTSMART" /\ d.sckt = c.sckt
         /\ Takes(c, "AT+CWSTOPSMART", d) => d.proc = "CWSTOPSMART" /\ d.sckt = c.sckt
         /\ Takes(c, "AT+CIPCLOSE", d) => c.proc = "NULL" /\ d.proc = "CIPCLOSE"
         /\ Takes(c, "AT+CIPSEND", d)
              => c.proc = "NULL" /\ d.proc = "CIPSEND" /\ d.sckt = c.sckt
         /\ Takes(c, "AT+CWJAP_CUR", d)
              => /\ c.proc = "NULL" /\ d.proc = "CWJAP_CUR"
                 /\ d.sckt = c.sckt /\ d.conn = "Connecting"
         /\ Takes(c, "AT+CIPSTART", d) => c.proc = "NULL" /\ d.proc = "CIPSTART"
<1>1. Takes(c, "AT+CWMODE_CUR", d)
        => c.proc = "NULL" /\ d.proc = "CWMODE_CUR" /\ d.sckt = c.sckt
  BY DEF Takes, JoinTakes, SmartTakes, OpenTakes,
         OtherTakes, AnyTakes, EchoTakes, Is
<1>2. Takes(c, "AT+CWQAP", d)
        => c.proc \in {"NULL", "CWQAP"} /\ d.proc = "CWQAP" /\ d.sckt = c.sckt
  BY DEF Takes, JoinTakes, SmartTakes, OpenTakes,
         OtherTakes, AnyTakes, EchoTakes, Is
<1>3. Takes(c, "AT+CWSTARTSMART", d)
        => c.proc = "NULL" /\ d.proc = "CWSTARTSMART" /\ d.sckt = c.sckt
  BY DEF Takes, JoinTakes, SmartTakes, OpenTakes,
         OtherTakes, AnyTakes, EchoTakes, Is
<1>4. Takes(c, "AT+CWSTOPSMART", d) => d.proc = "CWSTOPSMART" /\ d.sckt = c.sckt
  BY DEF Takes, JoinTakes, SmartTakes, OpenTakes,
         OtherTakes, AnyTakes, EchoTakes, Is
<1>5. Takes(c, "AT+CIPCLOSE", d) => c.proc = "NULL" /\ d.proc = "CIPCLOSE"
  BY DEF Takes, JoinTakes, SmartTakes, OpenTakes,
         OtherTakes, AnyTakes, EchoTakes, Is
<1>6. Takes(c, "AT+CIPSEND", d)
        => c.proc = "NULL" /\ d.proc = "CIPSEND" /\ d.sckt = c.sckt
  BY DEF Takes, JoinTakes, SmartTakes, OpenTakes,
         OtherTakes, AnyTakes, EchoTakes, Is
<1>7. Takes(c, "AT+CWJAP_CUR", d)
        => c.proc = "NULL" /\ d.proc = "CWJAP_CUR" /\ d.sckt = c.sckt /\ d.conn = "Connecting"
  BY DEF Takes, JoinTakes, SmartTakes, OpenTakes,
         OtherTakes, AnyTakes, EchoTakes, Is
<1>8. Takes(c, "AT+CIPSTART", d) => c.proc = "NULL" /\ d.proc = "CIPSTART"
  BY DEF Takes, JoinTakes, SmartTakes, OpenTakes,
         OtherTakes, AnyTakes, EchoTakes, Is
<1> QED BY <1>1, <1>2, <1>3, <1>4, <1>5, <1>6, <1>7, <1>8

(* ... and what its answers do.                                            *)
LEMMA AnswersMean ==
  ASSUME NEW c, NEW d
  PROVE  /\ c.proc \in {"CWMODE_CUR", "CWQAP", "CWSTOPSMART"} /\ Takes(c, "OK", d)
              => d.proc = "NULL" /\ d.sckt = c.sckt
         /\ c.proc = "CIPCLOSE" /\ Takes(c, "OK", d) => d.proc = "NULL"
         /\ c.proc = "CWSTARTSMART" /\ Takes(c, "OK", d)
              => d.proc = "SmartConfig" /\ d.sckt = c.sckt
         /\ c.proc = "CIPSEND" /\ Takes(c, "OK", d)
              => d.proc = "TxDataStream" /\ d.sckt = c.sckt
         /\ c.proc # "CIPSTART" => ~Takes(c, "ERROR", d)
         /\ c.proc = "NULL" /\ Takes(c, "WIFI DISCONNECT", d) => d.proc = "NULL" /\ d.sckt = c.sckt
         /\ c.proc = "CIPCLOSE" /\ Takes(c, "CLOSED", d) => d.proc = "CIPCLOSE"
<1>1. c.proc \in {"CWMODE_CUR", "CWQAP", "CWSTOPSMART"} /\ Takes(c, "OK", d)
        => d.proc = "NULL" /\ d.sckt = c.sckt
  BY DEF Takes, JoinTakes, SmartTakes, OpenTakes, OtherTakes, AnyTakes, EchoTakes, Is
<1>2. c.proc = "CIPCLOSE" /\ Takes(c, "OK", d) => d.proc = "NULL"
  BY DEF Takes, JoinTakes, SmartTakes, OpenTakes, OtherTakes, AnyTakes, EchoTakes, Is
<1>3. c.proc = "CWSTARTSMART" /\ Takes(c, "OK", d)
        => d.proc = "SmartConfig" /\ d.sckt = c.sckt
  BY DEF Takes, JoinTakes, SmartTakes, OpenTakes, OtherTakes, AnyTakes, EchoTakes, Is
<1>4. c.proc = "CIPSEND" /\ Takes(c, "OK", d)
        => d.proc = "TxDataStream" /\ d.sckt = c.sckt
  BY DEF Takes, JoinTakes, SmartTakes, OpenTakes, OtherTakes, AnyTakes, EchoTakes, Is
<1>5. c.proc # "CIPSTART" => ~Takes(c, "ERROR", d)
  BY DEF Takes, JoinTakes, SmartTakes, OpenTakes, OtherTakes, AnyTakes, EchoTakes, Is
<1>6. c.proc = "NULL" /\ Takes(c, "WIFI DISCONNECT", d) => d.proc = "NULL" /\ d.sckt = c.sckt
  BY DEF Takes, JoinTakes, SmartTakes, OpenTakes, OtherTakes, AnyTakes, EchoTakes, Is
<1>7. c.proc = "CIPCLOSE" /\ Takes(c, "CLOSED", d) => d.proc = "CIPCLOSE"
  BY DEF Takes, JoinTakes, SmartTakes, OpenTakes, OtherTakes, AnyTakes, EchoTakes, Is
<1> QED BY <1>1, <1>2, <1>3, <1>4, <1>5, <1>6, <1>7

(* The echo of a command, and its answers.                                 *)
LEMMA CommandsHeard ==
  ASSUME NEW f
  PROVE  /\ Hear(Listening(f), "AT+CWMODE_CUR", At("CWMODE_CUR", f))
         /\ Hear(At("CWMODE_CUR", f), "OK", At("NULL", f))
         /\ Hear(Listening(f), "AT+CWQAP", At("CWQAP", f))
         /\ Hear(At("CWQAP", f), "OK", At("NULL", f))
         /\ Hear(At("NULL", f), "WIFI DISCONNECT", At("NULL", f))
         /\ Hear(Listening(f), "AT+CWSTARTSMART", At("CWSTARTSMART", f))
         /\ Hear(At("CWSTARTSMART", f), "OK", At("SmartConfig", f))
         /\ Hear(Listening(f), "AT+CWSTOPSMART", At("CWSTOPSMART", f \ {"smart"}))
         /\ Hear(At("CWSTOPSMART", f \ {"smart"}), "OK", At("NULL", f \ {"smart"}))
         /\ Hear(Listening(f), "AT+CIPCLOSE", At("CIPCLOSE", f \ {"up"}))
         /\ Hear(At("CIPCLOSE", f \ {"up"}), "CLOSED", At("CIPCLOSE", f \ {"up"}))
         /\ Hear(At("CIPCLOSE", f \ {"up"}), "OK", At("NULL", f \ {"up"}))
         /\ Hear(At("CIPCLOSE", f \ {"up"}), "ERROR", {})
         /\ Hear(Listening(f), "AT+CIPSEND", At("CIPSEND", f))
         /\ Hear(At("CIPSEND", f), "OK", At("TxDataStream", f))
         /\ Hear(At("CIPSEND", f), "ERROR", {})
         /\ Hear(Listening(f), "AT+CWJAP_CUR", {c \in At("CWJAP_CUR", f) : c.conn = "Connecting"})
         /\ Hear(Listening(f), "AT+CIPSTART", At("CIPSTART", f \ {"up"}))
<1>1. Hear(Listening(f), "AT+CWMODE_CUR", At("CWMODE_CUR", f))
  BY EchoesMean DEF Listening, At, Hear, Fit
<1>2. Hear(At("CWMODE_CUR", f), "OK", At("NULL", f))
  BY AnswersMean DEF At, Hear, Fit
<1>3. Hear(Listening(f), "AT+CWQAP", At("CWQAP", f))
  BY EchoesMean DEF Listening, At, Hear, Fit
<1>4. Hear(At("CWQAP", f), "OK", At("NULL", f))
  BY AnswersMean DEF At, Hear, Fit
<1>5. Hear(At("NULL", f), "WIFI DISCONNECT", At("NULL", f))
  BY AnswersMean DEF At, Hear, Fit
<1>6. Hear(Listening(f), "AT+CWSTARTSMART", At("CWSTARTSMART", f))
  BY EchoesMean DEF Listening, At, Hear, Fit
<1>7. Hear(At("CWSTARTSMART", f), "OK", At("SmartConfig", f))
  BY AnswersMean DEF At, Hear, Fit
<1>8. Hear(Listening(f), "AT+CWSTOPSMART", At("CWSTOPSMART", f \ {"smart"}))
  BY EchoesMean DEF Listening, At, Hear, Fit
<1>9. Hear(At("CWSTOPSMART", f \ {"smart"}), "OK", At("NULL", f \ {"smart"}))
  BY AnswersMean DEF At, Hear, Fit
<1>10. Hear(Listening(f), "AT+CIPCLOSE", At("CIPCLOSE", f \ {"up"}))
  BY EchoesMean DEF Listening, At, Hear, Fit
<1>11. Hear(At("CIPCLOSE", f \ {"up"}), "CLOSED", At("CIPCLOSE", f \ {"up"}))
  BY AnswersMean DEF At, Hear, Fit
<1>12. Hear(At("CIPCLOSE", f \ {"up"}), "OK", At("NULL", f \ {"up"}))
  BY AnswersMean DEF At, Hear, Fit
<1>13. Hear(At("CIPCLOSE", f \ {"up"}), "ERROR", {})
  BY AnswersMean DEF At, Hear, Fit
<1>14. Hear(Listening(f), "AT+CIPSEND", At("CIPSEND", f))
  BY EchoesMean DEF Listening, At, Hear, Fit
<1>15. Hear(At("CIPSEND", f), "OK", At("TxDataStream", f))
  BY AnswersMean DEF At, Hear, Fit
<1>16. Hear(At("CIPSEND", f), "ERROR", {})
  BY AnswersMean DEF At, Hear, Fit
<1>17. Hear(Listening(f), "AT+CWJAP_CUR", {c \in At("CWJAP_CUR", f) : c.conn = "Connecting"})
  BY EchoesMean DEF Listening, At, Hear, Fit
<1>18. Hear(Listening(f), "AT+CIPSTART", At("CIPSTART", f \ {"up"}))
  BY EchoesMean DEF Listening, At, Hear, Fit
<1> QED
  BY <1>1, <1>2, <1>3, <1>4, <1>5, <1>6, <1>7, <1>8, <1>9, <1>10, <1>11, <1>12, <1>13,
       <1>14, <1>15, <1>16, <1>17, <1>18, Zenon

-----------------------------------------------------------------------------
(* What is known before and after a command.                               *)

(* The facts of module e with the commands c to read, by their names.      *)
Facts(e, c) == (IF e.smart # 0 THEN {"smart"} ELSE {}) \cup (IF e.sckt THEN {"up"} ELSE {})
                 \cup (IF HasOpen(c) THEN {"open"} ELSE {})

(* The facts, and what makes them true.                                    *)
LEMMA FactsAre ==
  ASSUME NEW e, NEW c
  PROVE  /\ "smart" \in Facts(e, c) <=> e.smart # 0
         /\ "up" \in Facts(e, c) <=> e.sckt
         /\ "open" \in Facts(e, c) <=> HasOpen(c)
<1>1. /\ "smart" \in (IF e.smart # 0 THEN {"smart"} ELSE {}) <=> e.smart # 0
      /\ "up" \in (IF e.sckt THEN {"up"} ELSE {}) <=> e.sckt
      /\ "open" \in (IF HasOpen(c) THEN {"open"} ELSE {}) <=> HasOpen(c)
      /\ "smart" \notin (IF e.sckt THEN {"up"} ELSE {})
      /\ "smart" \notin (IF HasOpen(c) THEN {"open"} ELSE {})
      /\ "up" \notin (IF e.smart # 0 THEN {"smart"} ELSE {})
      /\ "up" \notin (IF HasOpen(c) THEN {"open"} ELSE {})
      /\ "open" \notin (IF e.smart # 0 THEN {"smart"} ELSE {})
      /\ "open" \notin (IF e.sckt THEN {"up"} ELSE {})
  OBVIOUS
<1> QED BY <1>1, Zenon DEF Facts

(* Where no join is under way, the firmware listens.                       *)
LEMMA EndsListen ==
  ASSUME NEW e, NEW c, e.busy # "AT+CWJAP_CUR"
  PROVE  Ends(e, c) \subseteq Listening(Facts(e, c))
<1> DEFINE f == Facts(e, c)
<1>1. ("smart" \in f => e.smart # 0) /\ ("up" \in f => e.sckt) /\ ("open" \in f => HasOpen(c))
  BY FactsAre
<1> HIDE DEF f
<1>2. Ends(e, c) \subseteq Listening(f)
  BY <1>1 DEF Ends, Fits, Listening
<1> QED BY <1>2 DEF f

(* What is known after a command is fit for the module as it then is.      *)
LEMMA EndsFrom ==
  ASSUME NEW e, NEW c, NEW f,
         e.smart # 0 => "smart" \in f, e.sckt => "up" \in f, HasOpen(c) => "open" \in f
  PROVE  /\ e.busy \notin {"AT+CWJAP_CUR", "AT+CIPSTART"}
              => \A p : p \notin {"CWJAP_CUR", "CIPSTART"} => At(p, f) \subseteq Ends(e, c)
         /\ e.busy = "AT+CWJAP_CUR"
              => {d \in At("CWJAP_CUR", f) : d.conn = "Connecting"} \subseteq Ends(e, c)
         /\ e.busy = "AT+CIPSTART" /\ ~HasOpen(c) /\ ~e.sckt
              => At("CIPSTART", f \ {"up"}) \subseteq Ends(e, c)
<1>1. ASSUME e.busy \notin {"AT+CWJAP_CUR", "AT+CIPSTART"},
             NEW p, p \notin {"CWJAP_CUR", "CIPSTART"},
             NEW d \in At(p, f)
      PROVE  d \in Ends(e, c)
  BY <1>1 DEF At, Ends, Fits
<1>2. ASSUME e.busy = "AT+CWJAP_CUR", NEW d \in At("CWJAP_CUR", f), d.conn = "Connecting"
      PROVE  d \in Ends(e, c)
  BY <1>2 DEF At, Ends, Fits
<1>3. ASSUME e.busy = "AT+CIPSTART", ~HasOpen(c), ~e.sckt, NEW d \in At("CIPSTART", f \ {"up"})
      PROVE  d \in Ends(e, c)
  BY <1>3 DEF At, Ends, Fits
<1> QED BY <1>1, <1>2, <1>3

(* What is heard may mean more.                                            *)
LEMMA HearMore ==
  ASSUME NEW E, NEW a, NEW F, NEW D, NEW G, Hear(E, a, F), D \subseteq E, F \subseteq G
  PROVE  Hear(D, a, G)
BY DEF Hear

-----------------------------------------------------------------------------
(* What the module says fits on.                                           *)
Onward ==
  \A d \in Ctx : WireFit(d, wire, Ends(esp, cmds)) => WireFit(d, wire', Ends(esp', cmds'))

(* The words of a command, from what was known to what will be.            *)
LEMMA AnswerTwo ==
  ASSUME wire \in Seq(Line), NEW a \in Words, NEW b \in Words, Say(<<a, b>>),
         NEW D, NEW M \in SUBSET Ctx, NEW N, Ends(esp, cmds) \subseteq D,
         Hear(D, a, M), Hear(M, b, N), N \subseteq Ends(esp', cmds')
  PROVE  Onward
<1> DEFINE E == Ends(esp, cmds)
           F == Ends(esp', cmds')
<1>1. E \in SUBSET Ctx
  BY EndsCtx
<1>2. Hear(E, a, M) /\ Hear(M, b, F)
  BY HearMore
<1> HIDE DEF E, F
<1>3. \A d \in Ctx : WireFit(d, wire, E) => WireFit(d, wire', F)
  BY <1>1, <1>2, SayTwo
<1> QED BY <1>3 DEF E, F, Onward

(* One word, ...                                                           *)
LEMMA AnswerOne ==
  ASSUME wire \in Seq(Line), NEW a \in Words, Say(<<a>>), NEW D, NEW N,
         Ends(esp, cmds) \subseteq D,
         Hear(D, a, N), N \subseteq Ends(esp', cmds')
  PROVE  Onward
<1> DEFINE E == Ends(esp, cmds)
           F == Ends(esp', cmds')
<1>1. E \in SUBSET Ctx
  BY EndsCtx
<1>2. Hear(E, a, F)
  BY HearMore
<1> HIDE DEF E, F
<1>3. \A d \in Ctx : WireFit(d, wire, E) => WireFit(d, wire', F)
  BY <1>1, <1>2, SayOne
<1> QED BY <1>3 DEF E, F, Onward

(* ... and three.                                                          *)
LEMMA AnswerThree ==
  ASSUME wire \in Seq(Line), NEW a \in Words, NEW b \in Words, NEW c \in Words, Say(<<a, b, c>>),
         NEW D, NEW M \in SUBSET Ctx, NEW N \in SUBSET Ctx, NEW L,
         Ends(esp, cmds) \subseteq D,
         Hear(D, a, M), Hear(M, b, N), Hear(N, c, L), L \subseteq Ends(esp', cmds')
  PROVE  Onward
<1> DEFINE E == Ends(esp, cmds)
           F == Ends(esp', cmds')
<1>1. E \in SUBSET Ctx
  BY EndsCtx
<1>2. Hear(E, a, M) /\ Hear(N, c, F)
  BY HearMore
<1> HIDE DEF E, F
<1>3. \A d \in Ctx : WireFit(d, wire, E) => WireFit(d, wire', F)
  BY <1>1, <1>2, SayThree
<1> QED BY <1>3 DEF E, F, Onward

(* The commands are words.                                                 *)
LEMMA OrdersKnown ==
  /\ "AT+CWMODE_CUR" \in Words /\ "AT+CWJAP_CUR" \in Words /\ "AT+CWSTARTSMART" \in Words
  /\ "AT+CWSTOPSMART" \in Words /\ "AT+CIPSTART" \in Words /\ "AT+CIPCLOSE" \in Words
  /\ "AT+CWQAP" \in Words
BY DEF Words, Orders

(* What is known at a command is a context.                                *)
LEMMA AtCtx == \A p, f : At(p, f) \in SUBSET Ctx
BY DEF At

(* The module reads a command, echoes and answers it.                      *)
LEMMA ReadForeseen ==
  ASSUME Typed, Module(esp), Once, ReadCommand
  PROVE  Onward
<1> DEFINE c == Head(cmds)
           f == Facts(esp, cmds)
<1>1. /\ cmds \in Seq(Command) /\ wire \in Seq(Line) /\ cmds # << >> /\ cmds' = Tail(cmds)
      /\ Execute(c) /\ esp.busy = "None"
  BY Zenon DEF Typed, Serial, ReadCommand, c
<1>2. c \in Command
  BY <1>1
<1>3. /\ HasOpen(cmds') => HasOpen(cmds)
      /\ c.at = "AT+CIPSTART" => HasOpen(cmds) /\ ~HasOpen(cmds')
  BY <1>1, HeadOpens
<1>4. /\ "smart" \in f <=> esp.smart # 0
      /\ "up" \in f <=> esp.sckt
      /\ "open" \in f <=> HasOpen(cmds)
  BY FactsAre
<1>5. Ends(esp, cmds) \subseteq Listening(f)
  BY <1>1, EndsListen
<1>6. esp \in [power : {"Off", "Booting", "On"}, conn : BOOLEAN, sckt : BOOLEAN,
               busy : Works, smart : {0, 1, 2}, srv : Servers]
  BY DEF Module
<1> HIDE DEF c, f
<1>7. \A p : /\ At(p, f) \in SUBSET Ctx /\ At(p, f \ {"up"}) \in SUBSET Ctx
             /\ At(p, f \ {"smart"}) \in SUBSET Ctx
  BY AtCtx
<1>9. ASSUME NEW a \in Words, c.at = a, Say(<<c.at, "OK">>), NEW p, NEW q, NEW g,
             At(p, g) \in SUBSET Ctx, Hear(Listening(f), a, At(p, g)),
             Hear(At(p, g), "OK", At(q, g)),
             At(q, g) \subseteq Ends(esp', cmds')
      PROVE  Onward
  <2>1. Say(<<a, "OK">>)
    BY <1>9, Zenon
  <2> QED BY <1>1, <1>5, <1>9, <2>1, AnswerTwo, WordsKnown, Zenon
<1>10. CASE c.at = "AT+CWMODE_CUR" /\ Say(<<c.at, "OK">>) /\ UNCHANGED esp
  <2>1. At("NULL", f) \subseteq Ends(esp', cmds')
    BY <1>1, <1>3, <1>4, <1>10, EndsFrom
  <2>2. /\ Hear(Listening(f), "AT+CWMODE_CUR", At("CWMODE_CUR", f))
        /\ Hear(At("CWMODE_CUR", f), "OK", At("NULL", f))
    BY CommandsHeard
  <2>3. "AT+CWMODE_CUR" \in Words /\ At("CWMODE_CUR", f) \in SUBSET Ctx
    BY <1>7, OrdersKnown
  <2> QED BY <1>9, <1>10, <2>1, <2>2, <2>3
<1>11. CASE /\ c.at = "AT+CWQAP" /\ esp' = [esp EXCEPT !.conn = FALSE]
            /\ Say(IF esp.conn THEN <<c.at, "OK", "WIFI DISCONNECT">> ELSE <<c.at, "OK">>)
  <2>1. At("NULL", f) \subseteq Ends(esp', cmds')
    BY <1>1, <1>3, <1>4, <1>6, <1>11, EndsFrom
  <2>a. /\ Hear(Listening(f), "AT+CWQAP", At("CWQAP", f))
        /\ Hear(At("CWQAP", f), "OK", At("NULL", f))
        /\ Hear(At("NULL", f), "WIFI DISCONNECT", At("NULL", f))
    BY CommandsHeard
  <2>b. /\ "AT+CWQAP" \in Words /\ "OK" \in Words /\ "WIFI DISCONNECT" \in Words
        /\ At("CWQAP", f) \in SUBSET Ctx /\ At("NULL", f) \in SUBSET Ctx
    BY <1>7, OrdersKnown, WordsKnown
  <2>2. CASE Say(<<c.at, "OK">>)
    BY <1>9, <1>11, <2>1, <2>2, <2>a, <2>b
  <2>3. CASE Say(<<c.at, "OK", "WIFI DISCONNECT">>)
    <3>1. Say(<<"AT+CWQAP", "OK", "WIFI DISCONNECT">>)
      BY <1>11, <2>3, Zenon
    <3> QED
      BY <1>1, <1>5, <2>1, <2>a, <2>b, <3>1, AnswerThree
  <2> QED BY <1>11, <2>2, <2>3, Zenon
<1>12. CASE c.at = "AT+CWSTARTSMART" /\ Say(<<c.at, "OK">>) /\ esp' = [esp EXCEPT !.smart = 1]
  <2>1. At("SmartConfig", f) \subseteq Ends(esp', cmds')
    <3>1. esp'.busy = "None" /\ (esp'.sckt => esp.sckt)
      BY <1>1, <1>6, <1>12
    <3> QED BY <1>3, <1>4, <3>1 DEF At, Ends, Fits
  <2>2. /\ Hear(Listening(f), "AT+CWSTARTSMART", At("CWSTARTSMART", f))
        /\ Hear(At("CWSTARTSMART", f), "OK", At("SmartConfig", f))
    BY CommandsHeard
  <2>3. "AT+CWSTARTSMART" \in Words /\ At("CWSTARTSMART", f) \in SUBSET Ctx
    BY <1>7, OrdersKnown
  <2> QED BY <1>9, <1>12, <2>1, <2>2, <2>3
<1>13. CASE c.at = "AT+CWSTOPSMART" /\ Say(<<c.at, "OK">>) /\ esp' = [esp EXCEPT !.smart = 0]
  <2> DEFINE g == f \ {"smart"}
  <2>1. ("up" \in g <=> "up" \in f) /\ ("open" \in g <=> "open" \in f)
    OBVIOUS
  <2>2. Hear(Listening(f), "AT+CWSTOPSMART", At("CWSTOPSMART", g))
        /\ Hear(At("CWSTOPSMART", g), "OK", At("NULL", g)) /\ At("CWSTOPSMART", g) \in SUBSET Ctx
    BY <1>7, CommandsHeard
  <2> HIDE DEF g
  <2>3. esp'.smart = 0 /\ esp'.busy = "None" /\ (esp'.sckt => esp.sckt)
    BY <1>1, <1>6, <1>13
  <2>4. At("NULL", g) \subseteq Ends(esp', cmds')
    BY <1>3, <1>4, <2>1, <2>3, EndsFrom
  <2> QED BY <1>9, <1>13, <2>2, <2>4, OrdersKnown, Zenon
<1>14. CASE /\ c.at = "AT+CIPCLOSE" /\ esp' = [esp EXCEPT !.sckt = FALSE, !.srv = "None"]
            /\ Say(IF esp.sckt THEN <<c.at, "CLOSED", "OK">> ELSE <<c.at, "ERROR">>)
  <2> DEFINE g == f \ {"up"}
  <2>1. ("smart" \in g <=> "smart" \in f) /\ ("open" \in g <=> "open" \in f)
    OBVIOUS
  <2>2. /\ Hear(Listening(f), "AT+CIPCLOSE", At("CIPCLOSE", g))
        /\ Hear(At("CIPCLOSE", g), "CLOSED", At("CIPCLOSE", g))
        /\ Hear(At("CIPCLOSE", g), "OK", At("NULL", g)) /\ At("CIPCLOSE", g) \in SUBSET Ctx
        /\ Hear(At("CIPCLOSE", g), "ERROR", {})
    BY <1>7, CommandsHeard
  <2> HIDE DEF g
  <2>3. ~esp'.sckt /\ esp'.busy = "None" /\ esp'.smart = esp.smart
    BY <1>1, <1>6, <1>14
  <2>4. At("NULL", g) \subseteq Ends(esp', cmds')
    BY <1>3, <1>4, <2>1, <2>3, EndsFrom
  <2>a. "AT+CIPCLOSE" \in Words /\ "CLOSED" \in Words /\ "OK" \in Words /\ "ERROR" \in Words
    BY OrdersKnown, WordsKnown
  <2>5. CASE Say(<<c.at, "CLOSED", "OK">>)
    <3>1. Say(<<"AT+CIPCLOSE", "CLOSED", "OK">>)
      BY <1>14, <2>5, Zenon
    <3> QED BY <1>1, <1>5, <2>2, <2>4, <2>a, <3>1, AnswerThree
  <2>6. CASE Say(<<c.at, "ERROR">>)
    <3>1. Say(<<"AT+CIPCLOSE", "ERROR">>)
      BY <1>14, <2>6, Zenon
    <3>2. {} \subseteq Ends(esp', cmds')
      OBVIOUS
    <3> QED BY <1>1, <1>5, <2>2, <2>a, <3>1, <3>2, AnswerTwo
  <2> QED BY <1>14, <2>5, <2>6, Zenon
<1>15. CASE /\ c.at = "AT+CIPSEND"
            /\ \/ wire' = wire \o <<c, AT("OK")>> /\ esp' = [esp EXCEPT !.busy = "AT+CIPSEND"]
               \/ wire' = wire \o <<c, AT("ERROR")>> /\ UNCHANGED esp
  <2>1. c \in Line /\ AT("OK") \in Line /\ AT("ERROR") \in Line
        /\ AT("OK").at = "OK" /\ AT("ERROR").at = "ERROR"
    <3>1. c \in Line
      BY <1>2, <1>15 DEF Command, Line, Plain, Orders, Answers, Sending
    <3> QED BY <3>1, WordsKnown, WordsAreLines
  <2> DEFINE E == Ends(esp, cmds)
             F == Ends(esp', cmds')
             v == Append(wire, c)
  <2>2. E \in SUBSET Ctx /\ v \in Seq(Line)
    BY <1>1, <2>1, EndsCtx
  <2>3. /\ Hear(Listening(f), c.at, At("CIPSEND", f))
        /\ Hear(At("CIPSEND", f), "OK", At("TxDataStream", f))
        /\ Hear(At("CIPSEND", f), "ERROR", {})
    BY <1>15, CommandsHeard
  <2>4. Hear(E, c.at, At("CIPSEND", f))
    BY <1>5, <2>3, HearMore
  <2>5. \A d \in Ctx : WireFit(d, wire, E) => WireFit(d, v, At("CIPSEND", f))
    BY <1>1, <2>2, <2>4, HearOne
  <2>6. ASSUME NEW a \in Words, wire' = wire \o <<c, AT(a)>>, Hear(At("CIPSEND", f), a, F),
               AT(a) \in Line, AT(a).at = a
        PROVE  Onward
    <3>1. wire' = Append(v, AT(a))
      BY <1>1, <2>1, <2>6, TwoLines
    <3> HIDE DEF E, F, v
    <3>2. \A d \in Ctx : WireFit(d, v, At("CIPSEND", f)) => WireFit(d, wire', F)
      BY <1>7, <2>2, <2>6, <3>1, HearOne
    <3>3. \A d \in Ctx : WireFit(d, wire, E) => WireFit(d, wire', F)
      BY <2>5, <3>2
    <3> QED BY <3>3 DEF E, F, Onward
  <2>7. CASE wire' = wire \o <<c, AT("OK")>> /\ esp' = [esp EXCEPT !.busy = "AT+CIPSEND"]
    <3>1. At("TxDataStream", f) \subseteq F
      <4>1. esp'.busy = "AT+CIPSEND" /\ esp'.smart = esp.smart /\ (esp'.sckt => esp.sckt)
        BY <1>6, <2>7
      <4> QED BY <1>3, <1>4, <4>1, EndsFrom
    <3>2. Hear(At("CIPSEND", f), "OK", F)
      BY <2>3, <3>1, HearMore
    <3> QED BY <2>1, <2>6, <2>7, <3>2, WordsKnown, Zenon
  <2>8. CASE wire' = wire \o <<c, AT("ERROR")>> /\ UNCHANGED esp
    <3>1. Hear(At("CIPSEND", f), "ERROR", F)
      BY <2>3, HearMore
    <3> QED BY <2>1, <2>6, <2>8, <3>1, WordsKnown, Zenon
  <2> QED BY <1>15, <2>7, <2>8
<1>16. CASE c.at = "AT+CWJAP_CUR" /\ Say(<<c.at>>) /\ esp' = [esp EXCEPT !.busy = c.at]
  <2>1. esp'.busy = "AT+CWJAP_CUR" /\ esp'.smart = esp.smart /\ (esp'.sckt => esp.sckt)
    BY <1>6, <1>16
  <2>2. {d \in At("CWJAP_CUR", f) : d.conn = "Connecting"} \subseteq Ends(esp', cmds')
    BY <1>3, <1>4, <2>1, EndsFrom
  <2>3. Say(<<"AT+CWJAP_CUR">>)
    BY <1>16, Zenon
  <2> QED BY <1>1, <1>5, <2>2, <2>3, AnswerOne, CommandsHeard, OrdersKnown, Zenon
<1>17. CASE c.at = "AT+CIPSTART" /\ Say(<<c.at>>) /\ esp' = [esp EXCEPT !.busy = c.at]
  <2>1. esp'.busy = "AT+CIPSTART" /\ esp'.smart = esp.smart /\ (esp'.sckt => esp.sckt)
    BY <1>6, <1>17
  <2>2. Say(<<"AT+CIPSTART">>) /\ ~HasOpen(cmds') /\ HasOpen(cmds)
    BY <1>3, <1>17, Zenon
  <2>3. CASE esp.sckt
    <3>1. Listening(f) = {}
      BY <1>4, <2>2, <2>3 DEF Listening
    <3>2. Hear(Listening(f), "AT+CIPSTART", {}) /\ {} \subseteq Ends(esp', cmds')
      BY <3>1 DEF Hear
    <3>3. "AT+CIPSTART" \in Words
      BY OrdersKnown
    <3> QED BY <1>1, <1>5, <2>2, <3>2, <3>3, AnswerOne
  <2>4. CASE ~esp.sckt
    <3>1. At("CIPSTART", f \ {"up"}) \subseteq Ends(esp', cmds')
      BY <1>4, <2>1, <2>2, <2>4, EndsFrom
    <3> QED BY <1>1, <1>5, <2>2, <3>1, AnswerOne, CommandsHeard, OrdersKnown, Zenon
  <2> QED BY <2>3, <2>4
<1> QED
  BY <1>1, <1>10, <1>11, <1>12, <1>13, <1>14, <1>15, <1>16, <1>17, Zenon DEF Execute

-----------------------------------------------------------------------------
(* Where the other lines of the module lead.                               *)
Opens(f) ==
  {c \in Ctx : c.proc = "CIPSTART" /\ "smart" \notin f /\ "up" \notin f /\ "open" \notin f}

Fails(f) ==
  {c \in Ctx : c.proc \in {"CIPSTART", "NULL"}
               /\ "smart" \notin f /\ "up" \notin f /\ "open" \notin f}

Pairs(f) ==
  {c \in Ctx : /\ c.proc = "SmartConfig"
               /\ "up" \in f => c.sckt = "Opened" /\ "open" \notin f}

(* How the end of a join is heard, ...                                     *)
LEMMA JoinHeard ==
  ASSUME NEW f
  PROVE  /\ Hear(At("CWJAP_CUR", f), "WIFI CONNECTED", At("CWJAP_CUR", f))
         /\ Hear(At("CWJAP_CUR", f), "WIFI GOT IP", At("CWJAP_CUR", f))
         /\ Hear(At("CWJAP_CUR", f), "OK", At("NULL", f))
         /\ Hear(At("CWJAP_CUR", f), "+CWJAP:", At("CWJAP_CUR", f))
         /\ Hear(At("CWJAP_CUR", f), "FAIL", At("NULL", f))
<1>1. Hear(At("CWJAP_CUR", f), "WIFI CONNECTED", At("CWJAP_CUR", f))
  BY DEF At, Hear, Fit, Takes, JoinTakes, SmartTakes, OpenTakes, OtherTakes, AnyTakes,
       EchoTakes, Is
<1>2. Hear(At("CWJAP_CUR", f), "WIFI GOT IP", At("CWJAP_CUR", f))
  BY DEF At, Hear, Fit, Takes, JoinTakes, SmartTakes, OpenTakes, OtherTakes, AnyTakes,
       EchoTakes, Is
<1>3. Hear(At("CWJAP_CUR", f), "OK", At("NULL", f))
  BY DEF At, Hear, Fit, Takes, JoinTakes, SmartTakes, OpenTakes, OtherTakes, AnyTakes,
       EchoTakes, Is
<1>4. Hear(At("CWJAP_CUR", f), "+CWJAP:", At("CWJAP_CUR", f))
  BY DEF At, Hear, Fit, Takes, JoinTakes, SmartTakes, OpenTakes, OtherTakes, AnyTakes,
       EchoTakes, Is
<1>5. Hear(At("CWJAP_CUR", f), "FAIL", At("NULL", f))
  BY DEF At, Hear, Fit, Takes, JoinTakes, SmartTakes, OpenTakes, OtherTakes, AnyTakes,
       EchoTakes, Is
<1> QED BY <1>1, <1>2, <1>3, <1>4, <1>5

(* ... that of an opening, ...                                             *)
LEMMA OpenHeard ==
  ASSUME NEW f
  PROVE  /\ Hear(Opens(f), "CONNECT", {c \in Opens(f) : c.sckt = "Opened"})
         /\ Hear({c \in Opens(f) : c.sckt = "Opened"}, "OK", At("NULL", f \cup {"up"}))
         /\ Hear(Opens(f), "ERROR", Fails(f)) /\ Hear(Fails(f), "CLOSED", At("NULL", f))
         /\ Hear(Opens(f), "DNS Fail", {c \in Opens(f) : c.err = 1})
         /\ Hear(Opens(f), "no ip", {c \in Opens(f) : c.err = 1})
         /\ Hear({c \in Opens(f) : c.err = 1}, "ERROR", At("NULL", f))
<1>1. Hear(Opens(f), "CONNECT", {c \in Opens(f) : c.sckt = "Opened"})
  BY DEF Opens, Hear, Fit, Takes, JoinTakes, SmartTakes, OpenTakes, OtherTakes,
       AnyTakes, EchoTakes, Is
<1>2. Hear({c \in Opens(f) : c.sckt = "Opened"}, "OK", At("NULL", f \cup {"up"}))
  BY DEF At, Opens, Hear, Fit, Takes, JoinTakes, SmartTakes, OpenTakes, OtherTakes,
       AnyTakes, EchoTakes, Is
<1>3. Hear(Opens(f), "ERROR", Fails(f))
  BY DEF Opens, Fails, Hear, Fit, Takes, JoinTakes, SmartTakes, OpenTakes, OtherTakes,
       AnyTakes, EchoTakes, Is
<1>4. Hear(Fails(f), "CLOSED", At("NULL", f))
  BY DEF At, Fails, Hear, Fit, Takes, JoinTakes, SmartTakes, OpenTakes, OtherTakes,
       AnyTakes, EchoTakes, Is
<1>5. Hear(Opens(f), "DNS Fail", {c \in Opens(f) : c.err = 1})
  BY DEF Opens, Hear, Fit, Takes, JoinTakes, SmartTakes, OpenTakes, OtherTakes,
       AnyTakes, EchoTakes, Is
<1>6. Hear(Opens(f), "no ip", {c \in Opens(f) : c.err = 1})
  BY DEF Opens, Hear, Fit, Takes, JoinTakes, SmartTakes, OpenTakes, OtherTakes,
       AnyTakes, EchoTakes, Is
<1>7. Hear({c \in Opens(f) : c.err = 1}, "ERROR", At("NULL", f))
  BY DEF At, Opens, Hear, Fit, Takes, JoinTakes, SmartTakes, OpenTakes, OtherTakes,
       AnyTakes, EchoTakes, Is
<1> QED BY <1>1, <1>2, <1>3, <1>4, <1>5, <1>6, <1>7

(* ... the stages of SmartConfig ...                                       *)
LEMMA PairingHeard ==
  ASSUME NEW f
  PROVE  /\ Hear(Pairs(f), "smartconfig type:", Pairs(f)) /\ Hear(Pairs(f), "ssid:", Pairs(f))
         /\ Hear(Pairs(f), "password:", Pairs(f)) /\ Hear(Pairs(f), "WIFI CONNECTED", Pairs(f))
         /\ Hear(Pairs(f), "WIFI GOT IP", Pairs(f))
         /\ Hear(Pairs(f), "smartconfig connected wifi", At("NULL", f \ {"smart"}))
         /\ Hear(Pairs(f), "WIFI DISCONNECT", At("NULL", f \ {"smart"}))
<1>1. Hear(Pairs(f), "smartconfig type:", Pairs(f)) /\ Hear(Pairs(f), "ssid:", Pairs(f))
  BY DEF Pairs, Hear, Fit, Takes, JoinTakes, SmartTakes, OpenTakes, OtherTakes,
       AnyTakes, EchoTakes, Is
<1>2. Hear(Pairs(f), "password:", Pairs(f)) /\ Hear(Pairs(f), "WIFI CONNECTED", Pairs(f))
  BY DEF Pairs, Hear, Fit, Takes, JoinTakes, SmartTakes, OpenTakes, OtherTakes,
       AnyTakes, EchoTakes, Is
<1>3. Hear(Pairs(f), "WIFI GOT IP", Pairs(f))
  BY DEF Pairs, Hear, Fit, Takes, JoinTakes, SmartTakes, OpenTakes, OtherTakes,
       AnyTakes, EchoTakes, Is
<1>4. Hear(Pairs(f), "smartconfig connected wifi", At("NULL", f \ {"smart"}))
  BY DEF At, Pairs, Hear, Fit, Takes, JoinTakes, SmartTakes, OpenTakes, OtherTakes,
       AnyTakes, EchoTakes, Is
<1>5. Hear(Pairs(f), "WIFI DISCONNECT", At("NULL", f \ {"smart"}))
  BY DEF At, Pairs, Hear, Fit, Takes, JoinTakes, SmartTakes, OpenTakes, OtherTakes,
       AnyTakes, EchoTakes, Is
<1> QED BY <1>1, <1>2, <1>3, <1>4, <1>5

(* ... and the end of a transfer.                                          *)
LEMMA SentHeard ==
  ASSUME NEW f
  PROVE  /\ Hear(Listening(f), "SEND OK", At("NULL", f))
         /\ Hear(Listening(f), "SEND FAIL", At("NULL", f))
BY DEF At, Listening, Hear, Fit, Takes, JoinTakes, SmartTakes, OpenTakes, OtherTakes,
     AnyTakes, EchoTakes, Is

(* Lines that change nothing, and the ends of connections.                 *)
LEMMA AnyMean ==
  ASSUME NEW c, NEW d
  PROVE  /\ \A at \in {"busy p...", "+IPD"} :
              Takes(c, at, d) => d.proc = c.proc /\ d.conn = c.conn /\ d.sckt = c.sckt
         /\ Takes(c, "CLOSED", d) /\ c.proc # "CIPSTART" => d.proc = c.proc
         /\ Takes(c, "WIFI DISCONNECT", d)
              => (d.proc = "CWJAP_CUR" <=> c.proc = "CWJAP_CUR") /\ d.sckt = c.sckt
<1>1. \A at \in {"busy p...", "+IPD"} :
        Takes(c, at, d) => d.proc = c.proc /\ d.conn = c.conn /\ d.sckt = c.sckt
  BY DEF Takes, JoinTakes, SmartTakes, OpenTakes, OtherTakes, AnyTakes, EchoTakes, Is
<1>2. Takes(c, "CLOSED", d) /\ c.proc # "CIPSTART" => d.proc = c.proc
  BY DEF Takes, JoinTakes, SmartTakes, OpenTakes, OtherTakes, AnyTakes, EchoTakes, Is
<1>3. Takes(c, "WIFI DISCONNECT", d)
        => (d.proc = "CWJAP_CUR" <=> c.proc = "CWJAP_CUR") /\ d.sckt = c.sckt
  BY DEF Takes, JoinTakes, SmartTakes, OpenTakes, OtherTakes, AnyTakes, EchoTakes, Is
<1> QED BY <1>1, <1>2, <1>3

-----------------------------------------------------------------------------
(* A command that comes too early.                                         *)
LEMMA BusyForeseen ==
  ASSUME Typed, Busy
  PROVE  Onward
<1> DEFINE E == Ends(esp, cmds)
           F == Ends(esp', cmds')
<1>1. /\ cmds \in Seq(Command) /\ wire \in Seq(Line) /\ cmds # << >> /\ cmds' = Tail(cmds)
      /\ Say(<<"busy p...">>) /\ esp' = esp
  BY Zenon DEF Typed, Serial, Busy
<1>2. HasOpen(cmds') => HasOpen(cmds)
  BY <1>1, HeadOpens
<1>3. ASSUME NEW c \in E, NEW d \in Ctx, Takes(c, "busy p...", d) PROVE d \in F
  <2>1. d.proc = c.proc /\ d.conn = c.conn /\ d.sckt = c.sckt
    BY <1>3, AnyMean
  <2> QED BY <1>1, <1>2, <1>3, <2>1 DEF Ends, Fits
<1>4. \A c : Fit(c, "busy p...")
  BY DEF Fit
<1>5. E \in SUBSET Ctx /\ E \subseteq E /\ F \subseteq F
  BY EndsCtx
<1>6. Hear(E, "busy p...", F)
  BY <1>3, <1>4 DEF Hear
<1> HIDE DEF F
<1> QED BY <1>1, <1>5, <1>6, AnswerOne, WordsKnown DEF F

(* A join comes to its end.                                                *)
LEMMA JoinForeseen ==
  ASSUME Typed, Module(esp), Join
  PROVE  Onward
<1> DEFINE f == Facts(esp, cmds)
<1>1. wire \in Seq(Line) /\ cmds' = cmds /\ esp.busy = "AT+CWJAP_CUR"
  BY Zenon DEF Typed, Serial, Join
<1>2. \/ Say(<<"WIFI CONNECTED", "WIFI GOT IP", "OK">>)
         /\ esp' = [esp EXCEPT !.busy = "None", !.conn = TRUE]
      \/ Say(<<"+CWJAP:", "FAIL">>) /\ esp' = [esp EXCEPT !.busy = "None", !.conn = FALSE]
  BY Zenon DEF Join
<1>3. /\ "smart" \in f <=> esp.smart # 0
      /\ "up" \in f <=> esp.sckt
      /\ "open" \in f <=> HasOpen(cmds)
  BY FactsAre
<1> HIDE DEF f
<1>4. Ends(esp, cmds) \subseteq At("CWJAP_CUR", f)
  BY <1>1, <1>3 DEF Ends, Fits, At
<1>5. At("NULL", f) \subseteq Ends(esp', cmds')
  <2>1. esp'.busy = "None" /\ esp'.smart = esp.smart /\ (esp'.sckt => esp.sckt)
    BY <1>2 DEF Module
  <2> QED BY <1>1, <1>3, <2>1, EndsFrom
<1>6. At("CWJAP_CUR", f) \in SUBSET Ctx
  BY AtCtx
<1>7. CASE Say(<<"WIFI CONNECTED", "WIFI GOT IP", "OK">>)
  <2>1. "WIFI CONNECTED" \in Words /\ "WIFI GOT IP" \in Words /\ "OK" \in Words
    BY WordsKnown
  <2>2. /\ Hear(At("CWJAP_CUR", f), "WIFI CONNECTED", At("CWJAP_CUR", f))
        /\ Hear(At("CWJAP_CUR", f), "WIFI GOT IP", At("CWJAP_CUR", f))
        /\ Hear(At("CWJAP_CUR", f), "OK", At("NULL", f))
    BY JoinHeard
  <2> QED BY <1>1, <1>4, <1>5, <1>6, <1>7, <2>1, <2>2, AnswerThree
<1>8. CASE Say(<<"+CWJAP:", "FAIL">>)
  <2>1. "+CWJAP:" \in Words /\ "FAIL" \in Words
    BY WordsKnown
  <2>2. /\ Hear(At("CWJAP_CUR", f), "+CWJAP:", At("CWJAP_CUR", f))
        /\ Hear(At("CWJAP_CUR", f), "FAIL", At("NULL", f))
    BY JoinHeard
  <2> QED BY <1>1, <1>4, <1>5, <1>6, <1>8, <2>1, <2>2, AnswerTwo
<1> QED BY <1>2, <1>7, <1>8

(* An opening comes to its end.                                            *)
LEMMA OpenForeseen ==
  ASSUME Typed, Module(esp), Open
  PROVE  Onward
<1> DEFINE f == Facts(esp, cmds)
<1>1. wire \in Seq(Line) /\ cmds' = cmds /\ esp.busy = "AT+CIPSTART"
  BY Zenon DEF Typed, Serial, Open
<1>2. \/ /\ Say(<<"CONNECT", "OK">>)
         /\ esp' = [esp EXCEPT !.busy = "None", !.sckt = TRUE, !.srv = "Accepted"]
      \/ /\ Say(<<"ERROR", "CLOSED">>) \/ Say(<<"DNS Fail", "ERROR">>) \/ Say(<<"no ip", "ERROR">>)
         /\ esp' = [esp EXCEPT !.busy = "None"]
  BY Zenon DEF Open
<1>3. /\ "smart" \in f <=> esp.smart # 0
      /\ "up" \in f <=> esp.sckt
      /\ "open" \in f <=> HasOpen(cmds)
  BY FactsAre
<1> HIDE DEF f
<1>4. Ends(esp, cmds) \subseteq Opens(f)
  BY <1>1, <1>3 DEF Ends, Fits, Opens
<1>5. Opens(f) \in SUBSET Ctx /\ Fails(f) \in SUBSET Ctx
  BY DEF Opens, Fails
<1>6. CASE /\ Say(<<"CONNECT", "OK">>)
           /\ esp' = [esp EXCEPT !.busy = "None", !.sckt = TRUE, !.srv = "Accepted"]
  <2> DEFINE g == f \cup {"up"}
             M == {c \in Opens(f) : c.sckt = "Opened"}
  <2>1. "up" \in g /\ ("smart" \in g <=> "smart" \in f) /\ ("open" \in g <=> "open" \in f)
    OBVIOUS
  <2>2. Hear(Opens(f), "CONNECT", M) /\ Hear(M, "OK", At("NULL", g))
    BY OpenHeard
  <2>3. M \in SUBSET Ctx
    BY <1>5
  <2> HIDE DEF g, M
  <2>4. esp'.busy = "None" /\ esp'.smart = esp.smart
    BY <1>6 DEF Module
  <2>5. At("NULL", g) \subseteq Ends(esp', cmds')
    BY <1>1, <1>3, <2>1, <2>4, EndsFrom
  <2>6. "CONNECT" \in Words /\ "OK" \in Words
    BY WordsKnown
  <2> QED BY <1>1, <1>4, <1>6, <2>2, <2>3, <2>5, <2>6, AnswerTwo
<1>7. CASE /\ \/ Say(<<"ERROR", "CLOSED">>) \/ Say(<<"DNS Fail", "ERROR">>)
              \/ Say(<<"no ip", "ERROR">>)
           /\ esp' = [esp EXCEPT !.busy = "None"]
  <2> DEFINE M == {c \in Opens(f) : c.err = 1}
  <2>1. /\ Hear(Opens(f), "ERROR", Fails(f)) /\ Hear(Fails(f), "CLOSED", At("NULL", f))
        /\ Hear(Opens(f), "DNS Fail", M) /\ Hear(Opens(f), "no ip", M)
        /\ Hear(M, "ERROR", At("NULL", f))
    BY OpenHeard
  <2>2. M \in SUBSET Ctx
    BY <1>5
  <2> HIDE DEF M
  <2>3. esp'.busy = "None" /\ esp'.smart = esp.smart /\ (esp'.sckt => esp.sckt)
    BY <1>7 DEF Module
  <2>4. At("NULL", f) \subseteq Ends(esp', cmds')
    BY <1>1, <1>3, <2>3, EndsFrom
  <2>5. "ERROR" \in Words /\ "CLOSED" \in Words /\ "DNS Fail" \in Words /\ "no ip" \in Words
    BY WordsKnown
  <2>6. CASE Say(<<"ERROR", "CLOSED">>)
    BY <1>1, <1>4, <1>5, <2>1, <2>4, <2>5, <2>6, AnswerTwo
  <2>7. CASE Say(<<"DNS Fail", "ERROR">>)
    BY <1>1, <1>4, <2>1, <2>2, <2>4, <2>5, <2>7, AnswerTwo
  <2>8. CASE Say(<<"no ip", "ERROR">>)
    BY <1>1, <1>4, <2>1, <2>2, <2>4, <2>5, <2>8, AnswerTwo
  <2> QED BY <1>7, <2>6, <2>7, <2>8
<1> QED BY <1>2, <1>6, <1>7

(* Data was sent, or could not be.                                         *)
LEMMA TransmitForeseen ==
  ASSUME Typed, Module(esp), Transmit
  PROVE  Onward
<1> DEFINE f == Facts(esp, cmds)
           srv == Served(esp.srv, Head(cmds).units)
<1>1. /\ cmds \in Seq(Command) /\ wire \in Seq(Line) /\ cmds # << >> /\ cmds' = Tail(cmds)
      /\ esp.busy = "AT+CIPSEND"
  BY Zenon DEF Typed, Serial, Transmit
<1>2. HasOpen(cmds') => HasOpen(cmds)
  BY <1>1, HeadOpens
<1>3. /\ "smart" \in f <=> esp.smart # 0
      /\ "up" \in f <=> esp.sckt
      /\ "open" \in f <=> HasOpen(cmds)
  BY FactsAre
<1>4. Ends(esp, cmds) \subseteq Listening(f)
  BY <1>1, EndsListen
<1>5. /\ esp' = [esp EXCEPT !.busy = "None", !.srv = srv] \/ esp' = [esp EXCEPT !.busy = "None"]
      /\ Say(<<"SEND OK">>) \/ Say(<<"SEND FAIL">>)
  BY DEF Transmit
<1> HIDE DEF f, srv
<1>6. esp'.busy = "None" /\ esp'.smart = esp.smart /\ (esp'.sckt => esp.sckt)
  BY <1>5 DEF Module
<1>7. At("NULL", f) \subseteq Ends(esp', cmds')
  BY <1>2, <1>3, <1>6, EndsFrom
<1>8. Hear(Listening(f), "SEND OK", At("NULL", f)) /\ Hear(Listening(f), "SEND FAIL", At("NULL", f))
  BY SentHeard
<1>9. "SEND OK" \in Words /\ "SEND FAIL" \in Words
  BY WordsKnown
<1>10. Say(<<"SEND OK">>) => Onward
  BY <1>1, <1>4, <1>7, <1>8, <1>9, AnswerOne
<1>11. Say(<<"SEND FAIL">>) => Onward
  BY <1>1, <1>4, <1>7, <1>8, <1>9, AnswerOne
<1> QED BY <1>5, <1>10, <1>11

-----------------------------------------------------------------------------
(* SmartConfig excludes that a long command is under way.                  *)
LEMMA SmartForeseen ==
  ASSUME Typed, Module(esp), SmartConfig
  PROVE  Onward
<1> DEFINE f == Facts(esp, cmds)
           E == Ends(esp, cmds)
           D == IF esp.busy \in {"AT+CWJAP_CUR", "AT+CIPSTART"} THEN {} ELSE Pairs(f)
           G == IF esp.busy \in {"AT+CWJAP_CUR", "AT+CIPSTART"} THEN {}
                ELSE At("NULL", f \ {"smart"})
<1>1. wire \in Seq(Line) /\ cmds' = cmds /\ esp.smart > 0
  BY Zenon DEF Typed, Serial, SmartConfig
<1>2. \/ Say(<<"smartconfig type:", "ssid:", "password:">>) /\ esp' = [esp EXCEPT !.smart = 2]
      \/ Say(<<"WIFI CONNECTED", "WIFI GOT IP", "smartconfig connected wifi">>)
         /\ esp' = [esp EXCEPT !.smart = 0, !.conn = TRUE]
      \/ Say(<<"WIFI DISCONNECT">>) /\ esp' = [esp EXCEPT !.smart = 0]
  BY Zenon DEF SmartConfig
<1>3. /\ "smart" \in f <=> esp.smart # 0
      /\ "up" \in f <=> esp.sckt
      /\ "open" \in f <=> HasOpen(cmds)
  BY FactsAre
<1> HIDE DEF f
<1>4. E \subseteq D /\ D \in SUBSET Ctx
  <2>1. esp.smart # 0
    BY <1>1 DEF Module
  <2> QED BY <1>3, <2>1 DEF Ends, Fits, Pairs
<1>5. \A a : Hear(Pairs(f), a, Pairs(f)) => Hear(D, a, D)
  BY DEF Hear
<1>6. \A a : Hear(Pairs(f), a, At("NULL", f \ {"smart"})) => Hear(D, a, G)
  BY DEF Hear
<1>7. /\ Hear(D, "smartconfig type:", D) /\ Hear(D, "ssid:", D) /\ Hear(D, "password:", D)
      /\ Hear(D, "WIFI CONNECTED", D) /\ Hear(D, "WIFI GOT IP", D)
      /\ Hear(D, "smartconfig connected wifi", G) /\ Hear(D, "WIFI DISCONNECT", G)
  BY <1>5, <1>6, PairingHeard, Zenon
<1>8. ASSUME esp'.smart = 0, esp'.busy = esp.busy, esp'.sckt => esp.sckt
      PROVE  G \subseteq Ends(esp', cmds')
  <2> DEFINE g == f \ {"smart"}
  <2>1. ("up" \in g <=> "up" \in f) /\ ("open" \in g <=> "open" \in f)
    OBVIOUS
  <2> HIDE DEF g
  <2>2. esp'.busy \notin {"AT+CWJAP_CUR", "AT+CIPSTART"}
          => At("NULL", g) \subseteq Ends(esp', cmds')
    BY <1>1, <1>3, <1>8, <2>1, EndsFrom
  <2> QED BY <1>8, <2>2 DEF g
<1>9. CASE Say(<<"smartconfig type:", "ssid:", "password:">>) /\ esp' = [esp EXCEPT !.smart = 2]
  <2>1. esp'.busy = esp.busy /\ (esp'.sckt => esp.sckt)
    BY <1>9 DEF Module
  <2>2. D \subseteq Ends(esp', cmds')
    BY <1>1, <1>3, <2>1 DEF Ends, Fits, Pairs
  <2>3. "smartconfig type:" \in Words /\ "ssid:" \in Words /\ "password:" \in Words
    BY WordsKnown
  <2>4. /\ Hear(D, "smartconfig type:", D) /\ Hear(D, "ssid:", D) /\ Hear(D, "password:", D)
        /\ E \subseteq D /\ D \in SUBSET Ctx
    BY <1>4, <1>7
  <2> HIDE DEF D
  <2>5. E \subseteq D => Ends(esp, cmds) \subseteq D
    OBVIOUS
  <2>6. Say(<<"smartconfig type:", "ssid:", "password:">>)
    BY <1>9
  <2> HIDE DEF E
  <2> QED BY <1>1, <2>2, <2>3, <2>4, <2>5, <2>6, AnswerThree
<1>10. CASE /\ Say(<<"WIFI CONNECTED", "WIFI GOT IP", "smartconfig connected wifi">>)
            /\ esp' = [esp EXCEPT !.smart = 0, !.conn = TRUE]
  <2>1. esp'.smart = 0 /\ esp'.busy = esp.busy /\ (esp'.sckt => esp.sckt)
    BY <1>10 DEF Module
  <2>2. G \subseteq Ends(esp', cmds')
    BY <1>8, <2>1
  <2>3. /\ "WIFI CONNECTED" \in Words /\ "WIFI GOT IP" \in Words
        /\ "smartconfig connected wifi" \in Words
    BY WordsKnown
  <2>4. /\ Hear(D, "WIFI CONNECTED", D) /\ Hear(D, "WIFI GOT IP", D)
        /\ Hear(D, "smartconfig connected wifi", G)
        /\ E \subseteq D /\ D \in SUBSET Ctx
    BY <1>4, <1>7
  <2> HIDE DEF D, G
  <2>5. E \subseteq D => Ends(esp, cmds) \subseteq D
    OBVIOUS
  <2>6. Say(<<"WIFI CONNECTED", "WIFI GOT IP", "smartconfig connected wifi">>)
    BY <1>10
  <2> HIDE DEF E
  <2> QED BY <1>1, <2>2, <2>3, <2>4, <2>5, <2>6, AnswerThree
<1>11. CASE Say(<<"WIFI DISCONNECT">>) /\ esp' = [esp EXCEPT !.smart = 0]
  <2>1. esp'.smart = 0 /\ esp'.busy = esp.busy /\ (esp'.sckt => esp.sckt)
    BY <1>11 DEF Module
  <2>2. G \subseteq Ends(esp', cmds')
    BY <1>8, <2>1
  <2>3. "WIFI DISCONNECT" \in Words
    BY WordsKnown
  <2> HIDE DEF D, G
  <2> QED BY <1>1, <1>4, <1>7, <1>11, <2>2, <2>3, AnswerOne
<1> QED BY <1>2, <1>9, <1>10, <1>11

(* Data comes by a socket that is open.                                    *)
LEMMA ServerForeseen ==
  ASSUME Typed, Module(esp), ServerAnswers \/ ServerSends
  PROVE  Onward
<1> DEFINE E == Ends(esp, cmds)
           F == Ends(esp', cmds')
<1>1. wire \in Seq(Line) /\ cmds' = cmds
  BY Zenon DEF Typed, Serial, ServerAnswers, ServerSends
<1>2. /\ esp.srv # "None"
      /\ \E data : SayIPD(data)
      /\ esp' = esp \/ \E srv : esp' = [esp EXCEPT !.srv = srv]
  BY DEF ServerAnswers, ServerSends
<1>3. PICK data : wire' = Append(wire, IPD(data))
  BY <1>2, Zenon DEF SayIPD
<1>4. IPD(data).at = "+IPD"
  BY DEF IPD
<1>5. esp.sckt /\ esp'.busy = esp.busy /\ esp'.smart = esp.smart /\ (esp'.sckt => esp.sckt)
  BY <1>2 DEF Module
<1>6. ASSUME NEW c \in E, NEW d \in Ctx, Takes(c, "+IPD", d) PROVE d \in F
  <2>1. d.proc = c.proc /\ d.conn = c.conn /\ d.sckt = c.sckt
    BY <1>6, AnyMean
  <2> QED BY <1>1, <1>5, <1>6, <2>1 DEF Ends, Fits
<1>7. ASSUME NEW c \in E PROVE Fit(c, "+IPD")
  BY <1>5, <1>7 DEF Ends, Fits, Fit
<1>8. E \in SUBSET Ctx /\ Hear(E, "+IPD", F)
  BY <1>6, <1>7, EndsCtx DEF Hear
<1> HIDE DEF E, F
<1>9. \A d \in Ctx : WireFit(d, wire, E) => WireFit(d, wire', F)
  BY <1>1, <1>3, <1>4, <1>8, HearOne
<1> QED BY <1>9 DEF E, F, Onward

(* The end of an open socket.                                              *)
Without(b) == {c \in Ctx : c.proc = "CWJAP_CUR" <=> b = "AT+CWJAP_CUR"}

(* How the loss of the socket is heard.                                    *)
LEMMA ClosedHeard ==
  ASSUME NEW F, esp.sckt, esp.smart = 0 => Without(esp.busy) \subseteq F,
         \A c \in Ctx : (c.proc = "CWJAP_CUR" <=> esp.busy = "AT+CWJAP_CUR")
           /\ (esp.smart # 0 => c.proc = "SmartConfig") => c \in F
  PROVE  esp.busy # "AT+CIPSTART" => Hear(Ends(esp, cmds), "CLOSED", F)
<1>1. ASSUME NEW c \in Ends(esp, cmds), NEW d \in Ctx, Takes(c, "CLOSED", d) PROVE d \in F
  <2>1. c.proc # "CIPSTART" /\ (c.proc = "CWJAP_CUR" <=> esp.busy = "AT+CWJAP_CUR")
        /\ (esp.smart # 0 => c.proc = "SmartConfig")
    BY <1>1 DEF Ends, Fits
  <2>2. d.proc = c.proc
    BY <1>1, <2>1, AnyMean
  <2> QED BY <1>1, <2>1, <2>2
<1>2. ASSUME NEW c \in Ends(esp, cmds) PROVE Fit(c, "CLOSED")
  BY <1>2 DEF Ends, Fits, Fit
<1> QED BY <1>1, <1>2 DEF Hear

(* The server leaves, or the access point.                                 *)
LEMMA LossForeseen ==
  ASSUME Typed, Module(esp), ServerCloses \/ AccessPointLost
  PROVE  Onward
<1> DEFINE E == Ends(esp, cmds)
           F == Ends(esp', cmds')
           M == Without(esp.busy)
<1>1. wire \in Seq(Line) /\ cmds' = cmds
  BY Zenon DEF Typed, Serial, ServerCloses, AccessPointLost
<1>2. E \in SUBSET Ctx /\ M \in SUBSET Ctx
  BY EndsCtx DEF Without
<1>3. "CLOSED" \in Words /\ "WIFI DISCONNECT" \in Words
  BY WordsKnown
<1>4. ASSUME esp'.busy = esp.busy, esp'.smart = esp.smart, ~esp'.sckt, esp.busy # "AT+CIPSTART",
             NEW c \in Ctx, c.proc = "CWJAP_CUR" <=> esp.busy = "AT+CWJAP_CUR",
             esp.smart # 0 => c.proc = "SmartConfig"
      PROVE  c \in F
  BY <1>4 DEF Ends, Fits
<1>5. CASE ServerCloses
  <2>1. esp.sckt /\ Say(<<"CLOSED">>) /\ esp' = [esp EXCEPT !.sckt = FALSE, !.srv = "None"]
    BY <1>5, Zenon DEF ServerCloses
  <2>2. esp'.busy = esp.busy /\ esp'.smart = esp.smart /\ ~esp'.sckt
    BY <2>1 DEF Module
  <2>3. CASE esp.busy = "AT+CIPSTART"
    <3>1. E = {}
      BY <2>1, <2>3 DEF Ends, Fits
    <3>2. Hear(E, "CLOSED", F) /\ E \subseteq E /\ F \subseteq F
      BY <3>1 DEF Hear
    <3> HIDE DEF F
    <3> QED BY <1>1, <1>2, <1>3, <2>1, <3>2, AnswerOne DEF F
  <2>4. CASE esp.busy # "AT+CIPSTART"
    <3>1. ASSUME NEW c \in Ctx, c.proc = "CWJAP_CUR" <=> esp.busy = "AT+CWJAP_CUR",
                 esp.smart # 0 => c.proc = "SmartConfig"
          PROVE  c \in F
      BY <1>4, <2>2, <2>4, <3>1
    <3>2. esp.smart = 0 => M \subseteq F
      BY <3>1 DEF Without
    <3> HIDE DEF F
    <3>3. Hear(E, "CLOSED", F) /\ E \subseteq E /\ F \subseteq F
      BY <2>1, <2>4, <3>1, <3>2, ClosedHeard
    <3> QED BY <1>1, <1>2, <1>3, <2>1, <3>3, AnswerOne DEF F
  <2> QED BY <2>3, <2>4
<1>6. CASE AccessPointLost
  <2>1. /\ esp.smart = 0 /\ esp.busy # "AT+CIPSTART"
        /\ esp' = [esp EXCEPT !.conn = FALSE, !.sckt = FALSE, !.srv = "None"]
        /\ Say(IF esp.sckt THEN <<"CLOSED", "WIFI DISCONNECT">> ELSE <<"WIFI DISCONNECT">>)
    BY <1>6, Zenon DEF AccessPointLost
  <2>2. esp'.busy = esp.busy /\ esp'.smart = esp.smart /\ ~esp'.sckt
    BY <2>1 DEF Module
  <2>3. M \subseteq F
    BY <1>4, <2>1, <2>2 DEF Without
  <2>4. Hear(M, "WIFI DISCONNECT", M)
    <3>1. ASSUME NEW c \in M, NEW d \in Ctx, Takes(c, "WIFI DISCONNECT", d) PROVE d \in M
      <4>1. d.proc = "CWJAP_CUR" <=> c.proc = "CWJAP_CUR"
        BY <3>1, AnyMean
      <4> QED BY <3>1, <4>1 DEF Without
    <3>2. \A c : Fit(c, "WIFI DISCONNECT")
      BY DEF Fit
    <3> QED BY <3>1, <3>2 DEF Hear
  <2>5. E \subseteq M
    BY DEF Ends, Fits, Without
  <2>6. CASE esp.sckt
    <3>1. Say(<<"CLOSED", "WIFI DISCONNECT">>)
      BY <2>1, <2>6
    <3>2. \A c \in Ctx : (c.proc = "CWJAP_CUR" <=> esp.busy = "AT+CWJAP_CUR") => c \in M
      BY DEF Without
    <3> HIDE DEF F, M
    <3>3. Hear(E, "CLOSED", M)
      BY <2>1, <2>6, <3>2, ClosedHeard DEF M
    <3> QED BY <1>1, <1>2, <1>3, <2>3, <2>4, <3>1, <3>3, AnswerTwo DEF F
  <2>7. CASE ~esp.sckt
    <3>1. Say(<<"WIFI DISCONNECT">>)
      BY <2>1, <2>7
    <3> HIDE DEF F, M
    <3> QED BY <1>1, <1>2, <1>3, <2>3, <2>4, <2>5, <3>1, AnswerOne DEF F
  <2> QED BY <2>6, <2>7
<1> QED BY <1>5, <1>6

(* Whatever the module says.                                               *)
LEMMA ModuleForeseen ==
  ASSUME Typed, Module(esp), Once, NEW caught, EspNext(caught)
  PROVE  Onward
<1>1. ASSUME Boot PROVE Onward
  BY <1>1, BootForeseen DEF Onward
<1> QED
  BY <1>1, ReadForeseen, BusyForeseen, JoinForeseen, OpenForeseen, TransmitForeseen,
       SmartForeseen,
     ServerForeseen, LossForeseen, Zenon DEF EspNext, Answering, Unsolicited

-----------------------------------------------------------------------------
(* The dialogue under the actions of the firmware.                         *)

(* The messages stay where they are, and what is known, too.               *)
LEMMA StillForeseen ==
  ASSUME Typed, Foreseen, mail' = mail, Now' = Now, Onward
  PROVE  Foreseen'
<1> DEFINE E == Ends(esp, cmds)
           F == Ends(esp', cmds')
<1>1. Now \in Ctx /\ mail \in Seq(Message)
  <2>1. Now \in Ctx
    BY NowCtx
  <2> QED BY <2>1, Zenon DEF Typed, Firmware
<1>2. MailFit(Now, mail, wire, E)
  BY DEF Foreseen
<1>3. \A d \in Ctx : WireFit(d, wire, E) => WireFit(d, wire', F)
  BY DEF Onward
<1> HIDE DEF E, F
<1>4. MailFit(Now, mail, wire', F)
  BY <1>1, <1>2, <1>3, MailWire
<1> QED BY <1>4 DEF F, Foreseen

(* The fewer commands that open a socket, the more may be known.           *)
LEMMA EndsAlike ==
  ASSUME NEW e, NEW g, NEW c, NEW k, g.busy = e.busy, g.smart = e.smart,
         g.sckt => e.sckt, HasOpen(k) => HasOpen(c)
  PROVE  Ends(e, c) \subseteq Ends(g, k)
BY DEF Ends, Fits

(* Nothing is said.                                                        *)
LEMMA SilentOnward ==
  ASSUME wire' = wire, Ends(esp, cmds) \subseteq Ends(esp', cmds')
  PROVE  Onward
<1> DEFINE E == Ends(esp, cmds)
           F == Ends(esp', cmds')
<1> HIDE DEF E, F
<1>1. E \subseteq F
  BY DEF E, F
<1>2. \A d \in Ctx : WireFit(d, wire, E) => WireFit(d, wire', F)
  BY <1>1, WireWeaker
<1> QED BY <1>2 DEF E, F, Onward

(* One command more, which opens no socket.                                *)
LEMMA OpensNoMore ==
  ASSUME cmds \in Seq(Command),
         cmds' = cmds \/ \E c : cmds' = Append(cmds, c) /\ c.at # "AT+CIPSTART"
  PROVE  (HasOpen(cmds') => HasOpen(cmds)) /\ (Once => Once')
<1>1. CASE cmds' = cmds
  BY <1>1 DEF Once
<1>2. ASSUME NEW c, cmds' = Append(cmds, c), c.at # "AT+CIPSTART"
      PROVE  (HasOpen(cmds') => HasOpen(cmds)) /\ (Once => Once')
  <2>1. /\ Len(cmds) \in Nat /\ Len(cmds') = Len(cmds) + 1 /\ cmds'[Len(cmds) + 1] = c
        /\ \A k \in 1 .. Len(cmds) : cmds'[k] = cmds[k]
    BY <1>2
  <2>2. \A k \in 1 .. Len(cmds') : cmds'[k].at = "AT+CIPSTART"
          => k \in 1 .. Len(cmds) /\ cmds[k].at = "AT+CIPSTART"
    BY <1>2, <2>1
  <2>3. HasOpen(cmds') => HasOpen(cmds)
    BY <2>2 DEF HasOpen
  <2>4. Once => Once'
    BY <2>2 DEF Once
  <2> QED BY <2>3, <2>4
<1> QED BY <1>1, <1>2

(* A line leaves what it posts behind the messages that wait, and that is  *)
(* no line.                                                                *)
LEMMA LineMail ==
  ASSUME Typed, Typed', mail # << >>, ByLine(Head(mail))
  PROVE  \/ mail' = Tail(mail)
         \/ \E x \in Message : x.head # "ATCmd" /\ mail' = Append(Tail(mail), x)
         \/ \E x, y \in Message : /\ x.head # "ATCmd" /\ y.head # "ATCmd"
                                 /\ mail' = Append(Append(Tail(mail), x), y)
<1> DEFINE line == Head(mail).line
           t == Tail(mail)
           y == [head |-> "HciWiFiState", state |-> hciWiFiState']
<1>1. mail \in Seq(Message) /\ txLen \in Nat /\ hciWiFiState' \in State
  BY Zenon DEF Typed, Firmware
<1>2. PICK row \in RowsFor(line.at) : HciWiFiATCoP(line, row)
  BY Zenon DEF ByLine
<1> DEFINE q == IF row.post THEN <<y>> ELSE << >>
<1>3. mail' = t \o Posted(line) \o q
  BY <1>2 DEF HciWiFiATCoP
<1>4. y \in Message /\ y.head # "ATCmd"
  BY <1>1 DEF Message
<1>5. line \in Line /\ t \in Seq(Message)
  <2>1. Head(mail).head = "ATCmd"
    BY DEF ByLine
  <2> QED BY <1>1, <2>1 DEF Message
<1>6. \A x : Posted(line) = <<x>> => x.head # "ATCmd"
  <2> DEFINE a == [head |-> "RxDataStream", data |-> line.data]
             b == [head |-> "Update", credential |-> "ssid"]
             c == [head |-> "Update", credential |-> "passwd"]
             d == [head |-> "TxDataStream", len |-> txLen]
  <2>1. Posted(line) \in {<<a>>, <<b>>, <<c>>, <<d>>, << >>}
    BY DEF Posted
  <2>2. a.head # "ATCmd" /\ b.head # "ATCmd" /\ c.head # "ATCmd" /\ d.head # "ATCmd"
    OBVIOUS
  <2> HIDE DEF a, b, c, d
  <2>3. \A x, z : <<x>> = <<z>> => x = z
    OBVIOUS
  <2>4. \A x : <<x>> # << >>
    OBVIOUS
  <2> QED BY <2>1, <2>2, <2>3, <2>4
<1> HIDE DEF line, t, y
<1>7. \/ Posted(line) = << >>
      \/ \E x \in Message : Posted(line) = <<x>> /\ x.head # "ATCmd"
  BY <1>1, <1>5, <1>6, PostedParts, Zenon
<1> DEFINE n == t \o Posted(line)
<1>8. n = t \/ \E x \in Message : n = Append(t, x) /\ x.head # "ATCmd"
  <2>1. t \o << >> = t
    BY <1>5
  <2> QED BY <1>5, <1>7, <2>1, AddOne, Zenon
<1>9. n \in Seq(Message)
  <2>1. \A x \in Message : Append(t, x) \in Seq(Message)
    BY <1>5
  <2> HIDE DEF n
  <2> QED BY <1>5, <1>8, <2>1
<1>10. mail' = n \/ mail' = Append(n, y)
  <2>1. n \o << >> = n /\ n \o <<y>> = Append(n, y)
    BY <1>4, <1>9, AddOne
  <2> QED BY <1>3, <2>1
<1> HIDE DEF n, q
<1> QED BY <1>4, <1>8, <1>10, Zenon DEF t

(* A message of the HCI task.                                              *)
LEMMA MessageForeseen ==
  ASSUME IInv, IInv', Foreseen, HciMessage
  PROVE  Foreseen'
<1> DEFINE E == Ends(esp, cmds)
           F == Ends(esp', cmds')
<1>1. /\ mail # << >> /\ Head(mail) \in Message /\ mail \in Seq(Message)
      /\ ByLine(Head(mail)) \/ ByState(Head(mail)) \/ ByOther(Head(mail))
      /\ cmds' = cmds \/ \E c : cmds' = Append(cmds, c) /\ c.at # "AT+CIPSTART"
  BY MessageEffect
<1>2. wire' = wire /\ esp' = esp
  BY Zenon DEF HciMessage
<1>3. Typed /\ Typed' /\ cmds \in Seq(Command)
  BY Zenon DEF IInv, Typed, Serial
<1>4. E \subseteq F
  BY <1>1, <1>2, <1>3, OpensNoMore, EndsAlike
<1>5. Now \in Ctx /\ Now' \in Ctx
  BY <1>3, NowCtx
<1>6. MailFit(Now, mail, wire, E)
  BY DEF Foreseen
<1> HIDE DEF E, F
<1>7. ASSUME NEW m, MailFit(Now', m, wire, E), mail' = m PROVE Foreseen'
  <2>1. \A d \in Ctx : WireFit(d, wire, E) => WireFit(d, wire', F)
    BY <1>2, <1>4, WireWeaker
  <2>2. m \in Seq(Message)
    BY <1>3, <1>7, Zenon DEF Typed, Firmware
  <2>3. MailFit(Now', m, wire', F)
    BY <1>5, <1>7, <2>1, <2>2, MailWire
  <2> QED BY <1>7, <2>3 DEF F, Foreseen
<1>8. CASE ByState(Head(mail)) \/ ByOther(Head(mail))
  <2>1. mail' = Tail(mail) /\ Now' = Now /\ Head(mail).head # "ATCmd"
    BY <1>8 DEF ByState, ByOther
  <2>2. Heard(Now, Head(mail), Now)
    BY <2>1 DEF Heard
  <2>3. MailFit(Now, Tail(mail), wire, E)
    BY <1>1, <1>5, <1>6, <2>2, MailHead
  <2> QED BY <1>7, <2>1, <2>3
<1>9. CASE ByLine(Head(mail))
  <2> DEFINE line == Head(mail).line
  <2>1. Head(mail).head = "ATCmd"
    BY <1>9 DEF ByLine
  <2>2. PICK row \in RowsFor(line.at) : HciWiFiATCoP(line, row)
    BY <1>9 DEF ByLine
  <2>3. Takes(Now, line.at, Now')
    BY <1>3, <2>2, LineTakes, Zenon
  <2>4. Heard(Now, Head(mail), Now')
    BY <2>1, <2>3 DEF Heard
  <2>5. MailFit(Now', Tail(mail), wire, E)
    BY <1>1, <1>5, <1>6, <2>4, MailHead
  <2>6. Tail(mail) \in Seq(Message)
    BY <1>1
  <2>7. ASSUME NEW m \in Seq(Message), MailFit(Now', m, wire, E),
               NEW x \in Message, x.head # "ATCmd"
        PROVE  Append(m, x) \in Seq(Message) /\ MailFit(Now', Append(m, x), wire, E)
    BY <1>5, <2>7, MailMore
  <2>8. CASE mail' = Tail(mail)
    BY <1>7, <2>5, <2>8
  <2>9. ASSUME NEW x \in Message, x.head # "ATCmd", mail' = Append(Tail(mail), x) PROVE Foreseen'
    BY <1>7, <2>5, <2>6, <2>7, <2>9
  <2>10. ASSUME NEW x \in Message, x.head # "ATCmd", NEW y \in Message, y.head # "ATCmd",
                mail' = Append(Append(Tail(mail), x), y)
         PROVE  Foreseen'
    BY <1>7, <2>5, <2>6, <2>7, <2>10
  <2> QED BY <1>1, <1>3, <1>9, <2>8, <2>9, <2>10, LineMail
<1> QED BY <1>1, <1>8, <1>9

(* A line comes in.                                                        *)
LEMMA LineForeseen ==
  ASSUME Typed, Foreseen, HalLine
  PROVE  Foreseen'
<1> DEFINE E == Ends(esp, cmds)
           x == [head |-> "ATCmd", line |-> Head(wire)]
<1>1. wire # << >> /\ wire' = Tail(wire) /\ mail' = Append(mail, x) /\ esp' = esp /\ cmds' = cmds
      /\ UNCHANGED atVars
  BY Zenon DEF HalLine, x
<1>2. Now' = Now /\ Now \in Ctx
  BY <1>1, NowCtx DEF atVars, Now
<1>3. wire \in Seq(Line) /\ mail \in Seq(Message)
  BY Zenon DEF Typed, Serial, Firmware
<1>4. MailFit(Now, mail, wire, E)
  BY DEF Foreseen
<1> HIDE DEF E
<1>5. MailFit(Now, Append(mail, x), Tail(wire), E)
  BY <1>1, <1>2, <1>3, <1>4, LineIn
<1>6. Ends(esp', cmds') = E
  BY <1>1 DEF E
<1> QED BY <1>1, <1>2, <1>5, <1>6, Zenon DEF Foreseen

-----------------------------------------------------------------------------
(* A connection is only opened while none is.                              *)

AsksIn(m) == \E i \in 1 .. Len(m) :
               m[i].head = "ATCmd" /\ m[i].line.at = "AT+CIPSTART"

(* AT+CIPSTART was sent and the HCI task has not heard of it.              *)
OnWay == HasOpen(cmds) \/ HasOpen(wire) \/ AsksIn(mail)

(* A task that is joined and has a socket to open, and one that will.      *)
Able == JoinedLike(hci.curState) /\ hci.pSocketInitStruct # "NULL"

Wishes == Able /\ hci.tarState = Online /\ "CheckHciWiFiState" \in hci.events \cup held

OpeningLaw ==
  /\ OnWay \/ Wishes => "OpenWebSocket" \notin appEvents
  /\ ~(OnWay /\ Able)
  /\ Once
  /\ running # "HciWiFi" => held = {}

(* A socket needs a connection, and the state that is reported of it.      *)
ConnectionLaw ==
  /\ JoinedLike(hci.curState) => hci.pConnInitStruct = "Connected"
  /\ hci.pSocketInitStruct # "NULL" => hci.pConnInitStruct = "Connected"

(* Where no socket is opened or open.                                      *)
Shut(c) == c.proc # "CIPSTART" /\ c.sckt \notin {"Opening", "Opened"}

(* Without an echo of AT+CIPSTART a path stays away from sockets.          *)
LEMMA StaysShut ==
  ASSUME NEW w \in Seq(Line), \A i \in 1 .. Len(w) : w[i].at # "AT+CIPSTART",
         NEW q \in Paths, Shut(q[0])
  PROVE  \A n \in 0 .. Len(w) : Speaks(w, q, n) => Shut(q[n])
<1> DEFINE T == {n \in 0 .. Len(w) : Speaks(w, q, n) /\ ~Shut(q[n])}
<1> SUFFICES ASSUME T # {} PROVE FALSE
  OBVIOUS
<1>1. T \subseteq Nat /\ Len(w) \in Nat
  OBVIOUS
<1>2. PICK n \in T : \A k \in T : n <= k
  BY <1>1, LeastIndex, Zenon
<1>3. n \in 0 .. Len(w) /\ Speaks(w, q, n) /\ ~Shut(q[n])
  OBVIOUS
<1>4. n # 0
  BY <1>3
<1>5. n - 1 \in 0 .. Len(w) /\ n \in 1 .. Len(w) /\ n - 1 < n /\ n \in 1 .. n
      /\ \A k \in 1 .. n - 1 : k \in 1 .. n
  BY <1>1, <1>3, <1>4
<1>6. Speaks(w, q, n - 1) /\ Takes(q[n - 1], w[n].at, q[n])
  BY <1>3, <1>5 DEF Speaks
<1>7. Shut(q[n - 1])
  <2>1. ~(n <= n - 1)
    BY <1>1, <1>3
  <2>2. n - 1 \notin T
    BY <1>2, <2>1
  <2> QED BY <1>5, <1>6, <2>2
<1>8. Steps(q[n - 1], w[n].at, q[n])
  BY <1>6, TakesSteps
<1>9. w[n].at # "AT+CIPSTART"
  BY <1>5
<1>10. Shut(q[n])
  BY <1>7, <1>8, <1>9 DEF Steps, Shut
<1> QED BY <1>3, <1>10

(* Where all messages are worked off, a task that is joined has no socket. *)
LEMMA JoinedShut ==
  ASSUME Typed, Chains, mail = << >>, JoinedLike(hci.curState)
  PROVE  Shut(Now)
<1>1. Now \in Ctx
  BY NowCtx
<1>2. hci.curState \notin OpeningRule.holds
  BY DEF OpeningRule
<1>3. Chain(OpeningRule, mail, hci.curState, Now)
  BY Zenon DEF Chains
<1>4. Len(mail) = 0
  OBVIOUS
<1>5. ~Answered(OpeningRule, mail, Len(mail) + 1, hci.curState)
  <2>1. \A j \in 1 .. (Len(mail) + 1) - 1 : FALSE
    BY <1>4
  <2> QED BY <1>2, <2>1 DEF Answered
<1>6. Now \notin OpeningRule.known
  BY <1>3, <1>5 DEF Chain
<1> QED BY <1>1, <1>6 DEF OpeningRule, Shut

(* AT+CIPSTART is given: nothing that waits speaks of a socket.            *)
LEMMA OpeningForeseen ==
  ASSUME Typed, Foreseen, Chains, ~OnWay, mail = << >>, mail' = mail, Now' = Now, wire' = wire,
         cmds' = Append(cmds, AT("AT+CIPSTART")), JoinedLike(hci.curState),
         esp'.busy = esp.busy, esp'.smart = esp.smart, esp'.sckt => esp.sckt
  PROVE  Foreseen'
<1> DEFINE E == Ends(esp, cmds)
           F == Ends(esp', cmds')
<1>1. Now \in Ctx /\ wire \in Seq(Line) /\ mail \in Seq(Message)
  <2>1. Now \in Ctx
    BY NowCtx
  <2> QED BY <2>1, Zenon DEF Typed, Firmware, Serial
<1>2. Shut(Now)
  BY JoinedShut
<1>3. WireFit(Now, wire, E)
  <2> DEFINE p == [k \in Nat |-> Now]
  <2>1. p \in Paths /\ p[0] = Now /\ p[Len(mail)] = Now
    BY <1>1 DEF Paths
  <2>2. Along(mail, p, Len(mail))
    BY DEF Along
  <2> HIDE DEF p, E
  <2> QED BY <2>1, <2>2 DEF E, Foreseen, MailFit
<1>4. WireFit(Now, wire, F)
  <2> SUFFICES ASSUME NEW q \in Paths, q[0] = Now
      PROVE  /\ \A n \in 1 .. Len(wire) : Speaks(wire, q, n - 1) => Fit(q[n - 1], wire[n].at)
             /\ Speaks(wire, q, Len(wire)) => q[Len(wire)] \in F
    BY Zenon DEF WireFit
  <2> HIDE DEF E, F
  <2>1. ASSUME Speaks(wire, q, Len(wire)) PROVE q[Len(wire)] \in F
    <3>1. q[Len(wire)] \in E
      BY <1>3, <2>1 DEF WireFit
    <3>2. Len(wire) \in 0 .. Len(wire)
      BY <1>1
    <3>3. \A i \in 1 .. Len(wire) : wire[i].at # "AT+CIPSTART"
      BY DEF OnWay, HasOpen
    <3>4. Shut(q[Len(wire)])
      BY <1>1, <1>2, <2>1, <3>2, <3>3, StaysShut
    <3> QED BY <3>1, <3>4 DEF E, F, Ends, Fits, Shut
  <2> QED BY <1>3, <2>1 DEF WireFit
<1> HIDE DEF F
<1>5. \A p \in Paths : p[0] = Now => p[Len(mail)] = Now
  BY <1>1
<1>6. MailFit(Now, mail, wire, F)
  BY <1>1, <1>4, <1>5 DEF MailFit
<1> QED BY <1>6 DEF F, Foreseen

-----------------------------------------------------------------------------
(* The laws of opening and of the connection under every action.           *)

(* What keeps the law: nothing new is asked for.                           *)
LEMMA OpeningStays ==
  ASSUME OpeningLaw, OnWay' => OnWay, Once', Wishes' => Wishes, Able' => Able,
         "OpenWebSocket" \in appEvents' => "OpenWebSocket" \in appEvents,
         running' # "HciWiFi" => held' = {}
  PROVE  OpeningLaw'
BY DEF OpeningLaw

(* Sequences with a first or a last element more.                          *)
LEMMA OpenAppended ==
  ASSUME NEW S, NEW w \in Seq(S), NEW x \in S, x.at # "AT+CIPSTART", HasOpen(Append(w, x))
  PROVE  HasOpen(w)
<1> DEFINE v == Append(w, x)
<1>1. /\ Len(w) \in Nat /\ Len(v) = Len(w) + 1 /\ v[Len(w) + 1] = x
      /\ \A k \in 1 .. Len(w) : v[k] = w[k]
  OBVIOUS
<1>2. PICK i \in 1 .. Len(v) : v[i].at = "AT+CIPSTART"
  BY DEF HasOpen
<1> HIDE DEF v
<1>3. i \in 1 .. Len(w) /\ w[i].at = "AT+CIPSTART"
  BY <1>1, <1>2
<1> QED BY <1>3 DEF HasOpen

(* ... or less, ...                                                        *)
LEMMA OpenBehind ==
  ASSUME NEW S, NEW w \in Seq(S), w # << >>
  PROVE  /\ HasOpen(Tail(w)) => HasOpen(w)
         /\ Head(w).at = "AT+CIPSTART" => HasOpen(w)
<1> DEFINE v == Tail(w)
<1>1. /\ Len(w) \in Nat /\ Len(w) > 0 /\ Len(v) = Len(w) - 1 /\ w[1] = Head(w)
      /\ \A k \in 1 .. Len(v) : v[k] = w[k + 1]
  BY HeadTailProperties
<1> HIDE DEF v
<1>2. ASSUME NEW i \in 1 .. Len(v), v[i].at = "AT+CIPSTART"
      PROVE  i + 1 \in 1 .. Len(w) /\ w[i + 1].at = "AT+CIPSTART"
  BY <1>1, <1>2
<1>3. 1 \in 1 .. Len(w)
  BY <1>1
<1> QED BY <1>1, <1>2, <1>3 DEF HasOpen, v

(* ... and so with the messages that wait, one more ...                    *)
LEMMA AskedAppended ==
  ASSUME NEW m \in Seq(Message), NEW x \in Message, AsksIn(Append(m, x))
  PROVE  AsksIn(m) \/ (x.head = "ATCmd" /\ x.line.at = "AT+CIPSTART")
<1> DEFINE v == Append(m, x)
<1>1. /\ Len(m) \in Nat /\ Len(v) = Len(m) + 1 /\ v[Len(m) + 1] = x
      /\ \A k \in 1 .. Len(m) : v[k] = m[k]
  OBVIOUS
<1>2. PICK i \in 1 .. Len(v) : v[i].head = "ATCmd" /\ v[i].line.at = "AT+CIPSTART"
  BY DEF AsksIn
<1> HIDE DEF v
<1>3. CASE i = Len(m) + 1
  BY <1>1, <1>2, <1>3
<1>4. CASE i # Len(m) + 1
  <2>1. i \in 1 .. Len(m) /\ m[i].head = "ATCmd" /\ m[i].line.at = "AT+CIPSTART"
    BY <1>1, <1>2, <1>4
  <2> QED BY <2>1 DEF AsksIn
<1> QED BY <1>3, <1>4

(* ... or one less.                                                        *)
LEMMA AskedBehind ==
  ASSUME NEW m \in Seq(Message), m # << >>, AsksIn(Tail(m))
  PROVE  AsksIn(m)
<1> DEFINE v == Tail(m)
<1>1. /\ Len(m) \in Nat /\ Len(m) > 0 /\ Len(v) = Len(m) - 1
      /\ \A k \in 1 .. Len(v) : v[k] = m[k + 1]
  BY HeadTailProperties
<1>2. PICK i \in 1 .. Len(v) : v[i].head = "ATCmd" /\ v[i].line.at = "AT+CIPSTART"
  BY DEF AsksIn
<1> HIDE DEF v
<1>3. i + 1 \in 1 .. Len(m) /\ m[i + 1].head = "ATCmd" /\ m[i + 1].line.at = "AT+CIPSTART"
  BY <1>1, <1>2
<1> QED BY <1>3 DEF AsksIn

(* Words that do not echo AT+CIPSTART.                                     *)
LEMMA WordsOpenNot ==
  ASSUME wire \in Seq(Line),
         \/ \E a \in Words \ {"AT+CIPSTART"} : Say(<<a>>)
         \/ \E a, b \in Words \ {"AT+CIPSTART"} : Say(<<a, b>>)
         \/ \E a, b, c \in Words \ {"AT+CIPSTART"} : Say(<<a, b, c>>),
         HasOpen(wire')
  PROVE  HasOpen(wire)
<1> DEFINE W == Words \ {"AT+CIPSTART"}
<1>1. \A a \in W : AT(a) \in Line /\ AT(a).at # "AT+CIPSTART" /\ a \in Words
  BY WordsAreLines, Zenon DEF AT
<1>0. \/ \E a \in W : Say(<<a>>)
      \/ \E a, b \in W : Say(<<a, b>>)
      \/ \E a, b, c \in W : Say(<<a, b, c>>)
  OBVIOUS
<1> HIDE DEF W
<1>2. \A w \in Seq(Line), a \in W :
        Append(w, AT(a)) \in Seq(Line) /\ (HasOpen(Append(w, AT(a))) => HasOpen(w))
  BY <1>1, OpenAppended
<1>7. ASSUME NEW a \in W, Say(<<a>>) PROVE wire' = Append(wire, AT(a))
  BY <1>1, <1>7, SayLines, Zenon DEF Say
<1>8. ASSUME NEW a \in W, NEW b \in W, Say(<<a, b>>)
       PROVE  wire' = Append(Append(wire, AT(a)), AT(b))
  BY <1>1, <1>8, SayLines, Zenon DEF Say
<1>9. ASSUME NEW a \in W, NEW b \in W, NEW c \in W, Say(<<a, b, c>>)
       PROVE  wire' = Append(Append(Append(wire, AT(a)), AT(b)), AT(c))
  <2>1. wire' = wire \o [i \in 1 .. Len(<<a, b, c>>) |-> AT(<<a, b, c>>[i])]
    BY <1>9, Zenon DEF Say
  <2>2. a \in Words /\ b \in Words /\ c \in Words
    BY <1>1
  <2> QED BY <2>1, <2>2, SayLines
<1>4. ASSUME NEW a \in W, Say(<<a>>) PROVE HasOpen(wire)
  <2>1. HasOpen(Append(wire, AT(a)))
    BY <1>4, <1>7
  <2> QED BY <1>2, <2>1, Zenon
<1>5. ASSUME NEW a \in W, NEW b \in W, Say(<<a, b>>) PROVE HasOpen(wire)
  <2>1. HasOpen(Append(Append(wire, AT(a)), AT(b)))
    BY <1>5, <1>8
  <2> QED BY <1>2, <2>1, Zenon
<1>6. ASSUME NEW a \in W, NEW b \in W, NEW c \in W, Say(<<a, b, c>>)
      PROVE  HasOpen(wire)
  <2> DEFINE v == Append(wire, AT(a))
  <2>1. v \in Seq(Line) /\ (HasOpen(v) => HasOpen(wire))
    BY <1>2, Zenon
  <2>2. HasOpen(Append(Append(v, AT(b)), AT(c)))
    BY <1>6, <1>9
  <2> HIDE DEF v
  <2>3. HasOpen(v)
    BY <1>2, <2>1, <2>2, Zenon
  <2> QED BY <2>1, <2>3
<1> QED BY <1>0, <1>4, <1>5, <1>6, Zenon

(* The words that are no echo of AT+CIPSTART, told by one to three.        *)
Harmless == Words \ {"AT+CIPSTART"}

Says ==
  \/ \E a \in Harmless : Say(<<a>>)
  \/ \E a, b \in Harmless : Say(<<a, b>>)
  \/ \E a, b, c \in Harmless : Say(<<a, b, c>>)

(* Ways to say it.                                                         *)
LEMMA SaysThat ==
  /\ \A a \in Harmless : Say(<<a>>) => Says
  /\ \A a \in Harmless : \A b \in Harmless : Say(<<a, b>>) => Says
  /\ \A a \in Harmless : \A b \in Harmless : \A c \in Harmless : Say(<<a, b, c>>) => Says
BY Zenon DEF Says

(* All commands but that one are among them, and all answers.              *)
LEMMA OthersKnown ==
  /\ Orders \ {"AT+CIPSTART"} \subseteq Harmless /\ Answers \subseteq Harmless
BY DEF Harmless, Words, Orders, Answers

(* The echo of AT+CIPSTART is only said when the command is read.          *)
LEMMA ReadOpens ==
  ASSUME Typed, ReadCommand, HasOpen(cmds') \/ HasOpen(wire')
  PROVE  HasOpen(cmds) \/ HasOpen(wire)
<1> DEFINE c == Head(cmds)
<1>1. /\ cmds \in Seq(Command) /\ wire \in Seq(Line) /\ cmds # << >> /\ cmds' = Tail(cmds)
      /\ Execute(c)
  BY Zenon DEF Typed, Serial, ReadCommand, c
<1>2. (HasOpen(cmds') => HasOpen(cmds)) /\ (c.at = "AT+CIPSTART" => HasOpen(cmds))
  BY <1>1, HeadOpens
<1>3. c \in Command
  BY <1>1
<1> HIDE DEF c
<1>4. ASSUME Says PROVE HasOpen(wire') => HasOpen(wire)
  BY <1>1, <1>4, WordsOpenNot, Zenon DEF Says, Harmless
<1>5. CASE c.at \in Orders /\ Says
  BY <1>2, <1>4, <1>5
<1>6. CASE c.at = "AT+CIPSTART"
  BY <1>2, <1>6
<1>7. ASSUME c.at = "AT+CIPSEND", NEW a \in {"OK", "ERROR"}, wire' = wire \o <<c, AT(a)>>
      PROVE  HasOpen(wire') => HasOpen(wire)
  <2>1. c \in Line
    BY <1>3, <1>7 DEF Command, Line, Plain, Sending, Orders, Answers
  <2>2. AT(a) \in Line /\ AT(a).at # "AT+CIPSTART"
    BY DEF AT, Line, Plain, Answers
  <2>3. wire' = Append(Append(wire, c), AT(a))
    BY <1>1, <1>7, <2>1, <2>2, TwoLines
  <2>4. Append(wire, c) \in Seq(Line)
    BY <1>1, <2>1
  <2>5. HasOpen(Append(wire, c)) => HasOpen(wire)
    BY <1>1, <1>7, <2>1, OpenAppended
  <2>6. HasOpen(Append(Append(wire, c), AT(a))) => HasOpen(Append(wire, c))
    BY <2>2, <2>4, OpenAppended
  <2> QED BY <2>3, <2>5, <2>6
<1>8. /\ \A x \in {"AT+CWMODE_CUR", "AT+CWQAP", "AT+CWSTARTSMART", "AT+CWSTOPSMART",
                   "AT+CIPCLOSE", "AT+CWJAP_CUR"} : x \in Harmless
      /\ "OK" \in Harmless /\ "ERROR" \in Harmless /\ "CLOSED" \in Harmless
      /\ "WIFI DISCONNECT" \in Harmless
  BY OthersKnown DEF Orders, Answers
<1>9. \/ c.at = "AT+CIPSTART"
      \/ /\ c.at = "AT+CIPSEND"
         /\ wire' = wire \o <<c, AT("OK")>> \/ wire' = wire \o <<c, AT("ERROR")>>
      \/ /\ c.at \in {"AT+CWMODE_CUR", "AT+CWQAP", "AT+CWSTARTSMART", "AT+CWSTOPSMART",
                      "AT+CIPCLOSE", "AT+CWJAP_CUR"}
         /\ \/ Say(<<c.at, "OK">>) \/ Say(<<c.at, "OK", "WIFI DISCONNECT">>)
            \/ Say(<<c.at, "CLOSED", "OK">>) \/ Say(<<c.at, "ERROR">>) \/ Say(<<c.at>>)
  <2>1. CASE c.at = "AT+CWQAP"
             /\ Say(IF esp.conn THEN <<c.at, "OK", "WIFI DISCONNECT">> ELSE <<c.at, "OK">>)
    BY <2>1, Zenon
  <2>2. CASE c.at = "AT+CIPCLOSE"
             /\ Say(IF esp.sckt THEN <<c.at, "CLOSED", "OK">> ELSE <<c.at, "ERROR">>)
    BY <2>2, Zenon
  <2>3. CASE /\ c.at = "AT+CIPSEND"
             /\ wire' = wire \o <<c, AT("OK")>> \/ wire' = wire \o <<c, AT("ERROR")>>
    BY <2>3
  <2>4. CASE /\ c.at \in {"AT+CWMODE_CUR", "AT+CWSTARTSMART", "AT+CWSTOPSMART"}
             /\ Say(<<c.at, "OK">>)
    BY <2>4
  <2>5. CASE c.at \in {"AT+CWJAP_CUR", "AT+CIPSTART"} /\ Say(<<c.at>>)
    BY <2>5
  <2>6. \/ c.at = "AT+CWMODE_CUR" /\ Say(<<c.at, "OK">>)
        \/ c.at = "AT+CWQAP"
           /\ Say(IF esp.conn THEN <<c.at, "OK", "WIFI DISCONNECT">> ELSE <<c.at, "OK">>)
        \/ c.at = "AT+CWSTARTSMART" /\ Say(<<c.at, "OK">>)
        \/ c.at = "AT+CWSTOPSMART" /\ Say(<<c.at, "OK">>)
        \/ c.at = "AT+CIPCLOSE"
           /\ Say(IF esp.sckt THEN <<c.at, "CLOSED", "OK">> ELSE <<c.at, "ERROR">>)
        \/ /\ c.at = "AT+CIPSEND"
           /\ wire' = wire \o <<c, AT("OK")>> \/ wire' = wire \o <<c, AT("ERROR")>>
        \/ c.at \in {"AT+CWJAP_CUR", "AT+CIPSTART"} /\ Say(<<c.at>>)
    BY <1>1, Zenon DEF Execute
  <2> QED BY <2>1, <2>2, <2>3, <2>4, <2>5, <2>6
<1>10. ASSUME c.at \in Harmless,
            \/ Say(<<c.at, "OK">>) \/ Say(<<c.at, "OK", "WIFI DISCONNECT">>)
            \/ Say(<<c.at, "CLOSED", "OK">>) \/ Say(<<c.at, "ERROR">>) \/ Say(<<c.at>>)
      PROVE  Says
  BY <1>8, <1>10, SaysThat, Zenon
<1> QED BY <1>2, <1>4, <1>7, <1>8, <1>9, <1>10

(* What the module says else.                                              *)
LEMMA ModuleSays ==
  ASSUME NEW caught, EspNext(caught), ~ReadCommand
  PROVE  /\ Says \/ \E data \in Payloads : SayIPD(data)
         /\ cmds' = cmds \/ (cmds # << >> /\ cmds' = Tail(cmds))
<1>1. /\ \A a \in Answers : Say(<<a>>) => Says
      /\ \A a \in Answers : \A b \in Answers : Say(<<a, b>>) => Says
      /\ \A a \in Answers : \A b \in Answers : \A c \in Answers : Say(<<a, b, c>>) => Says
  <2>1. \A a \in Answers : a \in Harmless
    BY OthersKnown
  <2> QED BY <2>1, SaysThat, Zenon
<1>2. /\ "ready" \in Answers /\ "OK" \in Answers /\ "ERROR" \in Answers /\ "FAIL" \in Answers
      /\ "CLOSED" \in Answers /\ "CONNECT" \in Answers /\ "no ip" \in Answers
      /\ "DNS Fail" \in Answers /\ "WIFI CONNECTED" \in Answers /\ "WIFI GOT IP" \in Answers
      /\ "WIFI DISCONNECT" \in Answers /\ "+CWJAP:" \in Answers /\ "busy p..." \in Answers
      /\ "smartconfig type:" \in Answers /\ "ssid:" \in Answers /\ "password:" \in Answers
      /\ "smartconfig connected wifi" \in Answers /\ "SEND OK" \in Answers
      /\ "SEND FAIL" \in Answers
  BY DEF Answers
<1>3. CASE Boot
  BY <1>1, <1>2, <1>3, Zenon DEF Boot
<1>4. CASE Busy
  BY <1>1, <1>2, <1>4, Zenon DEF Busy
<1>5. CASE Join
  BY <1>1, <1>2, <1>5, Zenon DEF Join
<1>6. CASE Open
  BY <1>1, <1>2, <1>6, Zenon DEF Open
<1>7. CASE Transmit
  BY <1>1, <1>2, <1>7, Zenon DEF Transmit
<1>8. CASE SmartConfig
  BY <1>1, <1>2, <1>8, Zenon DEF SmartConfig
<1>9. CASE ServerAnswers \/ ServerSends
  <2>1. \A x \in {"101", "text", "close", "404", "PAIRING!", "WSCLOSE!", "malformed"} :
          x \in Payloads
    BY DEF Payloads
  <2> QED BY <1>9, <2>1 DEF ServerAnswers, ServerSends
<1>10. CASE ServerCloses
  BY <1>1, <1>2, <1>10, Zenon DEF ServerCloses
<1>11. CASE AccessPointLost
  BY <1>1, <1>2, <1>11, Zenon DEF AccessPointLost
<1> QED
  BY <1>3, <1>4, <1>5, <1>6, <1>7, <1>8, <1>9, <1>10, <1>11, Zenon
     DEF EspNext, Answering, Unsolicited

(* So the module opens nothing that was not on the way.                    *)
LEMMA ModuleOpens ==
  ASSUME Typed, Once, NEW caught, EspNext(caught)
  PROVE  Once' /\ (HasOpen(cmds') \/ HasOpen(wire') => HasOpen(cmds) \/ HasOpen(wire))
<1>1. cmds \in Seq(Command) /\ wire \in Seq(Line)
  BY Zenon DEF Typed, Serial
<1>2. cmds' = cmds \/ (cmds # << >> /\ cmds' = Tail(cmds))
  BY ModuleSays, Zenon DEF ReadCommand
<1>3. Once'
  <2>1. CASE cmds' = cmds
    BY <2>1 DEF Once
  <2>2. CASE cmds # << >> /\ cmds' = Tail(cmds)
    <3> DEFINE t == Tail(cmds)
    <3>1. /\ Len(cmds) \in Nat /\ Len(cmds) > 0 /\ Len(t) = Len(cmds) - 1
          /\ \A k \in 1 .. Len(t) : t[k] = cmds[k + 1]
      BY <1>1, <2>2, HeadTailProperties
    <3> HIDE DEF t
    <3>2. ASSUME NEW i \in 1 .. Len(t), NEW j \in 1 .. Len(t),
                 t[i].at = "AT+CIPSTART", t[j].at = "AT+CIPSTART"
          PROVE  i = j
      <4>1. i + 1 \in 1 .. Len(cmds) /\ j + 1 \in 1 .. Len(cmds)
            /\ t[i] = cmds[i + 1] /\ t[j] = cmds[j + 1]
        BY <3>1
      <4>2. i + 1 = j + 1
        BY <3>2, <4>1 DEF Once
      <4> QED BY <4>2
    <3>3. cmds' = t
      BY <2>2 DEF t
    <3> QED BY <3>2, <3>3 DEF Once
  <2> QED BY <1>2, <2>1, <2>2
<1>4. CASE ReadCommand
  BY <1>3, <1>4, ReadOpens
<1>5. CASE ~ReadCommand
  <2>1. HasOpen(cmds') => HasOpen(cmds)
    BY <1>1, <1>2, HeadOpens
  <2>2. CASE Says
    BY <1>1, <1>3, <2>1, <2>2, WordsOpenNot, Zenon DEF Says, Harmless
  <2>3. ASSUME NEW data \in Payloads, SayIPD(data)
        PROVE  HasOpen(wire') => HasOpen(wire)
    <3>1. wire' = Append(wire, IPD(data)) /\ IPD(data) \in Line /\ IPD(data).at # "AT+CIPSTART"
      BY <2>3 DEF SayIPD, IPD, Line
    <3> QED BY <1>1, <3>1, OpenAppended
  <2> QED BY <1>3, <1>5, <2>1, <2>2, <2>3, ModuleSays, Zenon
<1> QED BY <1>4, <1>5

-----------------------------------------------------------------------------
(* What drifts is able to open a socket only if it was before.             *)
LEMMA DriftAble ==
  ASSUME Drift(hci, hci')
  PROVE  /\ Able' => Able
         /\ held' = held => (Wishes' => Wishes)
         /\ hci'.pSocketInitStruct = hci.pSocketInitStruct
         /\ hci'.pConnInitStruct = hci.pConnInitStruct
         /\ JoinedLike(hci'.curState) => JoinedLike(hci.curState)
<1>1. JoinedLike(hci'.curState) => JoinedLike(hci.curState)
  BY StateParts DEF Drift, Alike, JoinedLike
<1>2. Able' => Able
  BY <1>1 DEF Drift, Able
<1>3. ASSUME held' = held, Wishes' PROVE Wishes
  BY <1>2, <1>3 DEF Wishes, Drift
<1> QED BY <1>1, <1>2, <1>3 DEF Drift

(* A posted state does not make it able either.                            *)
LEMMA StateAble ==
  ASSUME hci \in HciType, NEW s \in State,
         Undisturbed(s) \/ Lost(s) \/ Made(s) \/ OpenedUp(s)
  PROVE  ~Able'
<1>1. CASE Undisturbed(s)
  <2>1. s \in State /\ ~JoinedLike(s)
    <3>1. ASSUME JoinedLike(s) PROVE s.sckt = "Closed" /\ s.conn = "GotIP"
      BY <3>1 DEF JoinedLike
    <3> QED BY <1>1, <3>1 DEF Undisturbed, Passing
  <2>2. ~JoinedLike(hci'.curState)
    BY <1>1, <2>1, StateParts DEF Undisturbed, Alike, JoinedLike
  <2> QED BY <2>2 DEF Able
<1>2. CASE Lost(s)
  BY <1>2 DEF Lost, Able
<1>3. CASE Made(s)
  BY <1>3 DEF Made, Able
<1>4. CASE OpenedUp(s)
  <2>1. ~JoinedLike(hci'.curState)
    BY <1>4, StateParts DEF OpenedUp, Alike, JoinedLike
  <2> QED BY <2>1 DEF Able
<1> QED BY <1>1, <1>2, <1>3, <1>4

(* A message of the HCI task: an echo that is read is on its way no more.  *)
LEMMA OpeningByMessage ==
  ASSUME IInv, IInv', OpeningLaw, HciMessage
  PROVE  OpeningLaw'
<1>1. /\ mail # << >> /\ Head(mail) \in Message /\ mail \in Seq(Message)
      /\ ByLine(Head(mail)) \/ ByState(Head(mail)) \/ ByOther(Head(mail))
      /\ cmds' = cmds \/ \E c : cmds' = Append(cmds, c) /\ c.at # "AT+CIPSTART"
  BY MessageEffect
<1>2. /\ cmds \in Seq(Command) /\ hci \in HciType /\ Typed /\ Typed'
      /\ wire' = wire /\ held' = held /\ running' = running
      /\ ProcessOsalMsg(Head(mail))
  BY Zenon DEF IInv, Typed, Serial, Firmware, HciMessage, kernelVars
<1>3. appEvents' = appEvents
  BY <1>2, Zenon DEF ProcessOsalMsg, HciWiFiATCoP
<1>4. (HasOpen(cmds') => HasOpen(cmds)) /\ Once'
  BY <1>1, <1>2, OpensNoMore DEF OpeningLaw
<1>5. AsksIn(mail') => AsksIn(mail)
  <2>1. AsksIn(Tail(mail)) => AsksIn(mail)
    BY <1>1, AskedBehind
  <2>2. \A x \in Message, m \in Seq(Message) :
          x.head # "ATCmd" /\ AsksIn(Append(m, x)) => AsksIn(m)
    BY AskedAppended
  <2>3. CASE mail' = Tail(mail)
    BY <2>1, <2>3
  <2>4. ASSUME NEW x \in Message, x.head # "ATCmd", mail' = Append(Tail(mail), x)
        PROVE  AsksIn(mail') => AsksIn(mail)
    <3>1. Tail(mail) \in Seq(Message)
      BY <1>1
    <3> QED BY <2>1, <2>2, <2>4, <3>1
  <2>5. ASSUME NEW x \in Message, x.head # "ATCmd", NEW y \in Message, y.head # "ATCmd",
               mail' = Append(Append(Tail(mail), x), y)
        PROVE  AsksIn(mail') => AsksIn(mail)
    <3>1. Tail(mail) \in Seq(Message) /\ Append(Tail(mail), x) \in Seq(Message)
      BY <1>1
    <3> QED BY <2>1, <2>2, <2>5, <3>1
  <2>6. ASSUME ByLine(Head(mail)) PROVE AsksIn(mail') => AsksIn(mail)
    BY <1>1, <1>2, <2>3, <2>4, <2>5, <2>6, LineMail
  <2>7. ByState(Head(mail)) \/ ByOther(Head(mail)) => mail' = Tail(mail)
    BY DEF ByState, ByOther
  <2> QED BY <1>1, <2>3, <2>6, <2>7
<1>6. OnWay' => OnWay
  BY <1>2, <1>4, <1>5 DEF OnWay
<1>7. (Able' => Able) /\ (Wishes' => Wishes)
  <2>1. CASE ByLine(Head(mail)) \/ ByOther(Head(mail))
    <3>1. Drift(hci, hci')
      BY <2>1, CalmDrift DEF ByLine, ByOther
    <3> QED BY <1>2, <3>1, DriftAble
  <2>2. CASE ByState(Head(mail))
    <3>1. ~Able'
      BY <1>2, <2>2, StateAble DEF ByState
    <3> QED BY <3>1 DEF Wishes
  <2> QED BY <1>1, <2>1, <2>2
<1>8. running' # "HciWiFi" => held' = {}
  BY <1>2 DEF OpeningLaw
<1> QED BY <1>3, <1>4, <1>6, <1>7, <1>8, OpeningStays

(* A flag of the HCI task.                                                 *)
LEMMA OpeningByFlag ==
  ASSUME Typed, OpeningLaw, HciEvent
  PROVE  OpeningLaw'
<1>1. /\ hci \in HciType /\ hci.events # {} /\ cmds \in Seq(Command) /\ HciProcessEvent(HciFlag)
      /\ wire' = wire /\ mail' = mail /\ held' = held /\ running' = running
      /\ appEvents' = appEvents
  BY Zenon DEF Typed, Firmware, Serial, HciEvent, kernelVars
<1>2. HciFlag \in hci.events
  BY <1>1, HciFlagIsSet
<1>3. /\ Drift(hci, hci')
      /\ \/ cmds' = cmds
         \/ \E c : cmds' = Append(cmds, c) /\ c.at # "AT+CIPSTART"
         \/ OpensSocket
  BY <1>1, <1>2, FlagEffect, Zenon
<1>4. (Able' => Able) /\ (Wishes' => Wishes)
  BY <1>1, <1>3, DriftAble
<1>5. running' # "HciWiFi" => held' = {}
  BY <1>1 DEF OpeningLaw
<1>6. CASE cmds' = cmds \/ \E c : cmds' = Append(cmds, c) /\ c.at # "AT+CIPSTART"
  <2>1. (HasOpen(cmds') => HasOpen(cmds)) /\ Once'
    BY <1>1, <1>6, OpensNoMore DEF OpeningLaw
  <2>2. OnWay' => OnWay
    BY <1>1, <2>1 DEF OnWay
  <2> QED BY <1>1, <1>4, <1>5, <2>1, <2>2, OpeningStays
<1>7. CASE OpensSocket
  <2>1. Able /\ Wishes
    BY <1>7, StateParts DEF OpensSocket, Able, Wishes, JoinedLike, NoSocket
  <2>2. ~OnWay /\ "OpenWebSocket" \notin appEvents'
    BY <1>1, <2>1 DEF OpeningLaw
  <2>3. ~Able'
    BY <1>7, StateParts DEF OpensSocket, Able, JoinedLike, Alike
  <2>4. Once'
    <3> DEFINE c == AT("AT+CIPSTART")
    <3>1. cmds' = Append(cmds, c)
      BY <1>7 DEF OpensSocket
    <3> HIDE DEF c
    <3>2. /\ Len(cmds) \in Nat /\ Len(cmds') = Len(cmds) + 1
          /\ \A k \in 1 .. Len(cmds) : cmds'[k] = cmds[k]
      BY <1>1, <3>1
    <3>3. \A k \in 1 .. Len(cmds) : cmds[k].at # "AT+CIPSTART"
      BY <2>2 DEF OnWay, HasOpen
    <3>4. \A k \in 1 .. Len(cmds') : cmds'[k].at = "AT+CIPSTART" => k = Len(cmds) + 1
      BY <3>2, <3>3
    <3> QED BY <3>4 DEF Once
  <2>5. ~Wishes'
    BY <2>3 DEF Wishes
  <2> QED BY <1>5, <2>2, <2>3, <2>4, <2>5 DEF OpeningLaw
<1> QED BY <1>3, <1>6, <1>7

(* An event of the application task.                                       *)
LEMMA OpeningByEvent ==
  ASSUME IInv, OpeningLaw, AppEvent
  PROVE  OpeningLaw'
<1>1. /\ Core /\ hci \in HciType /\ appEvents # {} /\ appEvents \subseteq AppFlags
      /\ ProcessEvent(AppFlag) /\ FailedByEvent(AppFlag) = {}
      /\ wire' = wire /\ mail' = mail /\ cmds' = cmds /\ held' = held /\ running' = running
      /\ appEvents' = appEvents \ {AppFlag}
  BY Parts, Zenon DEF IInv, Typed, Firmware, AppEvent, kernelVars, espVars
<1>2. \/ AsksForSocket /\ AppFlag = "OpenWebSocket"
      \/ AsksForConnection
      \/ Calm(hci, hci') /\ Talks
  BY <1>1, AppEffect, Zenon
<1>3. AppFlag \in appEvents
  BY <1>1, AppFlagIsSet
<1>4. OnWay' = OnWay /\ (OnWay' => OnWay)
  BY <1>1 DEF OnWay
<1>5. Once' /\ (running' # "HciWiFi" => held' = {})
  BY <1>1 DEF OpeningLaw, Once
<1>6. CASE AsksForSocket /\ AppFlag = "OpenWebSocket"
  <2>1. ~OnWay /\ "OpenWebSocket" \notin appEvents'
    BY <1>1, <1>3, <1>6 DEF OpeningLaw
  <2> QED BY <1>4, <1>5, <2>1 DEF OpeningLaw
<1>7. CASE AsksForConnection
  <2>1. (Able' => Able) /\ ~Wishes'
    BY <1>7 DEF AsksForConnection, Able, Wishes
  <2> QED BY <1>1, <1>4, <1>5, <2>1, OpeningStays
<1>8. CASE Calm(hci, hci')
  <2>1. Drift(hci, hci')
    BY <1>8, CalmDrift
  <2> QED BY <1>1, <1>4, <1>5, <2>1, DriftAble, OpeningStays
<1> QED BY <1>2, <1>6, <1>7, <1>8

-----------------------------------------------------------------------------
(* Every step.  The flags, the structs and the current state are mostly    *)
(* left alone.                                                             *)
Rests ==
  /\ hci' \in HciType /\ hci'.curState = hci.curState /\ hci'.tarState = hci.tarState
  /\ hci'.pSocketInitStruct = hci.pSocketInitStruct
  /\ hci'.pConnInitStruct = hci.pConnInitStruct

(* The steps in which the tasks pass control, timers expire and so on.     *)
Aside ==
  \/ HciReceives \/ HciReturns \/ AppReceives \/ AppReturns \/ AssertionFails
  \/ HalHead \/ (\E key \in Keys : Press(key))
  \/ (\E f \in AppFlags \cup {"HciEnable", "PairingTimeout"} : Expire(f))
  \/ UNCHANGED vars

(* Event flags apart nothing changes.                                      *)
LEMMA EventsRest ==
  ASSUME hci \in HciType, NEW flags, flags \in SUBSET HciFlags,
         hci' = [hci EXCEPT !.events = flags]
  PROVE  Rests /\ hci'.events = flags
BY DEF Rests, HciType

(* In all of them what is said, given and known stays as it is.            *)
LEMMA AsideRests ==
  ASSUME Typed, Aside
  PROVE  /\ Rests
         /\ esp' = esp /\ cmds' = cmds /\ wire' = wire /\ mail' = mail
         /\ wsVars' = wsVars /\ atVars' = atVars
<1>1. hci \in HciType /\ hci.events \in SUBSET HciFlags /\ held \in SUBSET HciFlags
  BY DEF Typed, Firmware, HciType
<1>2. hci' = hci => Rests
  BY <1>1 DEF Rests
<1>3. ASSUME esp' = esp /\ cmds' = cmds /\ wire' = wire /\ mail' = mail
             /\ wsVars' = wsVars /\ atVars' = atVars,
             NEW flags \in SUBSET HciFlags, hci' = [hci EXCEPT !.events = flags]
      PROVE  Rests
  BY <1>1, <1>3, EventsRest
<1>4. CASE HciReceives
  <2>1. /\ hci' = [hci EXCEPT !.events = {}]
        /\ esp' = esp /\ cmds' = cmds /\ wire' = wire /\ mail' = mail
        /\ wsVars' = wsVars /\ atVars' = atVars
    BY <1>4, Zenon DEF HciReceives, espVars
  <2> QED BY <1>3, <2>1
<1>5. CASE HciReturns
  <2>1. /\ hci' = [hci EXCEPT !.events = hci.events \cup held]
        /\ esp' = esp /\ cmds' = cmds /\ wire' = wire /\ mail' = mail
        /\ wsVars' = wsVars /\ atVars' = atVars
    BY <1>5, Zenon DEF HciReturns, espVars
  <2>2. hci.events \cup held \in SUBSET HciFlags
    BY <1>1
  <2> QED BY <1>3, <2>1, <2>2
<1>6. CASE HalHead
  <2>1. /\ hci' = [hci EXCEPT !.events = hci.events \cup {"Receiving"}]
        /\ esp' = esp /\ cmds' = cmds /\ wire' = wire /\ mail' = mail
        /\ wsVars' = wsVars /\ atVars' = atVars
    BY <1>6, Zenon DEF HalHead, espVars
  <2>2. hci.events \cup {"Receiving"} \in SUBSET HciFlags
    BY <1>1 DEF HciFlags
  <2> QED BY <1>3, <2>1, <2>2
<1>7. CASE AppReceives \/ AppReturns \/ AssertionFails
  BY <1>2, <1>7, Zenon DEF AppReceives, AppReturns, AssertionFails, espVars
<1>8. ASSUME NEW key \in Keys, Press(key)
      PROVE  /\ hci' = hci /\ esp' = esp /\ cmds' = cmds /\ wire' = wire /\ mail' = mail
             /\ wsVars' = wsVars /\ atVars' = atVars
  BY <1>8, Zenon DEF Press
<1>9. ASSUME NEW f \in AppFlags \cup {"HciEnable", "PairingTimeout"}, Expire(f)
      PROVE  /\ Rests
             /\ esp' = esp /\ cmds' = cmds /\ wire' = wire /\ mail' = mail
             /\ wsVars' = wsVars /\ atVars' = atVars
  <2>1. /\ esp' = esp /\ cmds' = cmds /\ wire' = wire /\ mail' = mail
        /\ wsVars' = wsVars /\ atVars' = atVars
    BY <1>9, Zenon DEF Expire
  <2>2. CASE f \in AppFlags
    <3>1. hci' = hci
      BY <1>9, <2>2 DEF Expire
    <3> QED BY <1>2, <2>1, <3>1
  <2>3. CASE f \notin AppFlags
    <3>1. hci' = [hci EXCEPT !.events = hci.events \cup {f}]
      BY <1>9, <2>3, Zenon DEF Expire
    <3>2. hci.events \cup {f} \in SUBSET HciFlags
      BY <1>1, <2>3 DEF HciFlags
    <3> QED BY <1>3, <2>1, <3>1, <3>2
  <2> QED BY <2>2, <2>3
<1>10. CASE UNCHANGED vars
  BY <1>2, <1>10, Zenon DEF vars, espVars
<1> QED BY <1>2, <1>4, <1>5, <1>6, <1>7, <1>8, <1>9, <1>10, Zenon DEF Aside

(* Before a timer of the application expires nothing is under way.         *)
LEMMA OpeningAside ==
  ASSUME Typed, OpeningLaw, Aside
  PROVE  OpeningLaw'
<1>1. /\ Rests /\ esp' = esp /\ cmds' = cmds /\ wire' = wire /\ mail' = mail
  BY AsideRests
<1>2. OnWay' = OnWay /\ Able' = Able /\ Once'
  BY <1>1 DEF OnWay, Able, Rests, Once, OpeningLaw
<1>3. running # "HciWiFi" => held = {}
  BY DEF OpeningLaw
<1>4. ASSUME "CheckHciWiFiState" \in hci'.events \cup held'
               => "CheckHciWiFiState" \in hci.events \cup held
      PROVE  Wishes' => Wishes
  BY <1>1, <1>2, <1>4 DEF Wishes, Rests
<1>5. ASSUME "CheckHciWiFiState" \in hci'.events \cup held'
               => "CheckHciWiFiState" \in hci.events \cup held,
             "OpenWebSocket" \in appEvents' => "OpenWebSocket" \in appEvents,
             running' # "HciWiFi" => held' = {}
      PROVE  OpeningLaw'
  BY <1>2, <1>4, <1>5, OpeningStays
<1>6. hci \in HciType /\ hci.events \in SUBSET HciFlags /\ held \in SUBSET HciFlags
  BY DEF Typed, Firmware, HciType
<1>7. \A flags \in SUBSET HciFlags : hci' = [hci EXCEPT !.events = flags] => hci'.events = flags
  BY <1>6, EventsRest
<1>8. CASE HciReceives
  <2>1. hci' = [hci EXCEPT !.events = {}] /\ held' = hci.events /\ running' = "HciWiFi"
        /\ appEvents' = appEvents
    BY <1>8, Zenon DEF HciReceives, appVars
  <2> QED BY <1>5, <1>6, <1>7, <2>1
<1>9. CASE HciReturns
  <2>1. hci' = [hci EXCEPT !.events = hci.events \cup held] /\ held' = {}
        /\ appEvents' = appEvents
    BY <1>9, Zenon DEF HciReturns, appVars
  <2>2. hci.events \cup held \in SUBSET HciFlags
    BY <1>6
  <2>3. hci'.events = hci.events \cup held
    BY <1>7, <2>1, <2>2
  <2> QED BY <1>5, <2>1, <2>3
<1>10. CASE HalHead
  <2>1. hci' = [hci EXCEPT !.events = hci.events \cup {"Receiving"}] /\ held' = held
        /\ appEvents' = appEvents /\ running' = running
    BY <1>10, Zenon DEF HalHead, appVars
  <2>2. hci.events \cup {"Receiving"} \in SUBSET HciFlags
    BY <1>6 DEF HciFlags
  <2>3. hci'.events = hci.events \cup {"Receiving"}
    BY <1>7, <2>1, <2>2
  <2> QED BY <1>3, <1>5, <2>1, <2>3
<1>11. CASE AppReceives \/ AppReturns
  <2>1. hci' = hci /\ held' = held /\ appEvents' = appEvents /\ running # "HciWiFi"
    BY <1>11, Zenon DEF AppReceives, AppReturns, appVars
  <2> QED BY <1>3, <1>5, <2>1
<1>12. CASE AssertionFails \/ UNCHANGED vars
  <2>1. hci' = hci /\ held' = held /\ appEvents' = appEvents /\ running' = running
    BY <1>12, Zenon DEF AssertionFails, vars, appVars, kernelVars
  <2> QED BY <1>3, <1>5, <2>1
<1>13. ASSUME NEW key \in Keys, Press(key) PROVE OpeningLaw'
  <2>1. hci' = hci /\ held' = held /\ appEvents' = appEvents /\ running' = running
    BY <1>13, Zenon DEF Press, kernelVars
  <2> QED BY <1>3, <1>5, <2>1
<1>14. ASSUME NEW f \in AppFlags \cup {"HciEnable", "PairingTimeout"}, Expire(f)
       PROVE  OpeningLaw'
  <2>1. /\ running = "None" /\ mail = << >> /\ hci.events = {} /\ cmds = << >> /\ wire = << >>
        /\ held' = held /\ running' = running
    BY <1>14, Zenon DEF Expire, Idle, HciIdle, kernelVars
  <2>2. held = {}
    BY <1>3, <2>1
  <2>3. ~OnWay'
    BY <1>2, <2>1 DEF OnWay, HasOpen, AsksIn
  <2>4. "CheckHciWiFiState" \notin hci'.events
    <3>1. CASE f \in AppFlags
      <4>1. hci' = hci
        BY <1>14, <3>1 DEF Expire
      <4> QED BY <2>1, <4>1
    <3>2. CASE f \notin AppFlags
      <4>1. hci' = [hci EXCEPT !.events = hci.events \cup {f}]
        BY <1>14, <3>2, Zenon DEF Expire
      <4>2. hci.events \cup {f} \in SUBSET HciFlags
        BY <1>6, <3>2 DEF HciFlags
      <4>3. f # "CheckHciWiFiState"
        BY <3>2
      <4> QED BY <1>7, <2>1, <4>1, <4>2, <4>3
    <3> QED BY <3>1, <3>2
  <2>5. ~Wishes'
    BY <2>1, <2>2, <2>4 DEF Wishes
  <2> QED BY <1>2, <2>1, <2>2, <2>3, <2>5 DEF OpeningLaw
<1> QED
  BY <1>8, <1>9, <1>10, <1>11, <1>12, <1>13, <1>14, Zenon DEF Aside

(* A line comes in, and its echo with it.                                  *)
LEMMA OpeningByLine ==
  ASSUME Typed, OpeningLaw, HalLine
  PROVE  OpeningLaw'
<1> DEFINE x == [head |-> "ATCmd", line |-> Head(wire)]
<1>1. /\ wire # << >> /\ wire' = Tail(wire) /\ mail' = Append(mail, x) /\ cmds' = cmds
      /\ hci' = hci /\ held' = held /\ running' = running /\ appEvents' = appEvents
  BY Zenon DEF HalLine, x, appVars
<1>2. wire \in Seq(Line) /\ mail \in Seq(Message)
  BY Zenon DEF Typed, Serial, Firmware
<1>3. x \in Message
  BY <1>1, <1>2 DEF Message
<1>4. x.line = Head(wire)
  OBVIOUS
<1> HIDE DEF x
<1>5. /\ HasOpen(Tail(wire)) => HasOpen(wire)
      /\ Head(wire).at = "AT+CIPSTART" => HasOpen(wire)
  BY <1>1, <1>2, OpenBehind
<1>6. AsksIn(Append(mail, x)) => AsksIn(mail) \/ HasOpen(wire)
  BY <1>2, <1>3, <1>4, <1>5, AskedAppended
<1>7. OnWay' => OnWay
  BY <1>1, <1>5, <1>6 DEF OnWay
<1>8. Once' /\ (Able' => Able) /\ (Wishes' => Wishes)
  BY <1>1 DEF OpeningLaw, Once, Able, Wishes
<1>9. running' # "HciWiFi" => held' = {}
  BY <1>1 DEF OpeningLaw
<1> QED BY <1>1, <1>7, <1>8, <1>9, OpeningStays

(* The module says something.                                              *)
LEMMA OpeningByModule ==
  ASSUME Typed, OpeningLaw, Outside
  PROVE  OpeningLaw'
<1>1. /\ EspNext(Idle /\ wire = << >>) /\ hci' = hci /\ mail' = mail
      /\ held' = held /\ running' = running /\ appEvents' = appEvents
  BY Zenon DEF Outside, appVars, kernelVars
<1>2. Once' /\ (HasOpen(cmds') \/ HasOpen(wire') => HasOpen(cmds) \/ HasOpen(wire))
  <2> DEFINE caught == Idle /\ wire = << >>
  <2>1. EspNext(caught)
    BY <1>1
  <2> HIDE DEF caught
  <2> QED BY <2>1, ModuleOpens DEF OpeningLaw
<1>3. (OnWay' => OnWay) /\ (Able' => Able) /\ (Wishes' => Wishes)
  BY <1>1, <1>2 DEF OnWay, Able, Wishes
<1>4. running' # "HciWiFi" => held' = {}
  BY <1>1 DEF OpeningLaw
<1> QED BY <1>1, <1>2, <1>3, <1>4, OpeningStays

(* A key.                                                                  *)
LEMMA OpeningByKey ==
  ASSUME Typed, OpeningLaw, AppMessage
  PROVE  OpeningLaw'
<1>1. /\ hci \in HciType /\ ProcessOsalMsgKey(Head(keys))
      /\ wire' = wire /\ cmds' = cmds /\ mail' = mail
      /\ held' = held /\ running' = running /\ appEvents' = appEvents
  BY Zenon DEF Typed, Firmware, AppMessage, espVars, kernelVars
<1>2. Drift(hci, hci')
  BY <1>1, KeyCalm, CalmDrift
<1>3. (Able' => Able) /\ (Wishes' => Wishes)
  BY <1>1, <1>2, DriftAble
<1>4. (OnWay' => OnWay) /\ Once' /\ (running' # "HciWiFi" => held' = {})
  BY <1>1 DEF OnWay, OpeningLaw, Once
<1> QED BY <1>1, <1>3, <1>4, OpeningStays

(* After a restart nothing is asked for.                                   *)
LEMMA OpeningAnew ==
  ASSUME Restart
  PROVE  OpeningLaw'
<1>1. /\ hci' = HciWiFi_Init /\ mail' = << >> /\ cmds' = << >> /\ wire' = << >> /\ appEvents' = {}
      /\ held' = {}
  BY Zenon DEF Restart
<1>2. ~OnWay'
  BY <1>1 DEF OnWay, HasOpen, AsksIn
<1>3. ~Wishes' /\ ~Able'
  <2>1. hci'.pSocketInitStruct = "NULL"
    BY <1>1 DEF HciWiFi_Init
  <2> QED BY <2>1 DEF Wishes, Able
<1>4. Once'
  BY <1>1 DEF Once
<1> QED BY <1>1, <1>2, <1>3, <1>4 DEF OpeningLaw

(* No socket is asked for while one is opened.                             *)
LEMMA OpeningStep ==
  ASSUME IInv, IInv', OpeningLaw, [Next]_vars
  PROVE  OpeningLaw'
<1>1. Typed
  BY DEF IInv
<1> QED
  BY <1>1, OpeningByMessage, OpeningByFlag, OpeningByEvent, OpeningByLine,
       OpeningByModule,
     OpeningByKey, OpeningAnew, OpeningAside, Zenon DEF Next, Tasks, Environment, Aside

-----------------------------------------------------------------------------
(* The dialogue and the chains under every step.                           *)

(* The firmware before it has heard anything.                              *)
Unaware == [proc |-> "NULL", conn |-> "Disconnected", sckt |-> "Closed", err |-> 0]

(* Where nothing was said, nothing is foreseen wrongly.                    *)
LEMMA NothingSaid ==
  /\ Unaware \in Ctx /\ MailFit(Unaware, << >>, << >>, Ends(EspOff, << >>))
  /\ Unaware \notin LinkRule.known /\ Unaware \notin SocketRule.known
  /\ Unaware \notin OpeningRule.known
<1>1. Unaware \in Ctx
  BY DEF Unaware, Ctx, Processors, Conns, Sckts
<1>2. Unaware \in Ends(EspOff, << >>)
  BY <1>1 DEF Ends, Fits, EspOff, HasOpen, Unaware
<1>3. WireFit(Unaware, << >>, Ends(EspOff, << >>))
  BY <1>2 DEF WireFit
<1>4. MailFit(Unaware, << >>, << >>, Ends(EspOff, << >>))
  BY <1>3 DEF MailFit
<1> QED BY <1>1, <1>4 DEF Unaware, LinkRule, SocketRule, OpeningRule

(* An empty queue is a chain.                                              *)
LEMMA NoChain ==
  ASSUME NEW r, NEW v, NEW c, c \notin r.known
  PROVE  Chain(r, << >>, v, c)
BY DEF Chain

(* What the firmware forgets in a restart.                                 *)
LEMMA Anew ==
  ASSUME Restart
  PROVE  Foreseen' /\ Chains'
<1>1. /\ mail' = << >> /\ wire' = << >> /\ cmds' = << >> /\ esp' = EspOff
      /\ hciWiFiState' = Zero /\ pfnATCmdProcessor' = "NULL" /\ errReason' = FALSE
  BY Zenon DEF Restart
<1>2. Now' = Unaware
  BY <1>1, StateParts DEF Now, Unaware
<1> HIDE DEF Unaware
<1>3. Foreseen'
  BY <1>1, <1>2, NothingSaid, Zenon DEF Foreseen
<1>4. Chains'
  BY <1>1, <1>2, NothingSaid, NoChain, Zenon DEF Chains
<1> QED BY <1>3, <1>4

(* The module stays one under every step.                                  *)
LEMMA ModuleStep ==
  ASSUME IInv, Module(esp), [Next]_vars
  PROVE  Module(esp')
<1>1. Typed
  BY DEF IInv
<1>2. CASE Outside
  <2>1. EspNext(Idle /\ wire = << >>)
    BY <1>2, Zenon DEF Outside
  <2> DEFINE caught == Idle /\ wire = << >>
  <2> HIDE DEF caught
  <2>2. EspNext(caught)
    BY <2>1 DEF caught
  <2> QED BY <2>2, ModuleNext
<1>3. CASE HciEvent
  <2>1. hci \in HciType /\ hci.events # {} /\ HciProcessEvent(HciFlag)
    BY <1>1, <1>3, Zenon DEF Typed, Firmware, HciEvent
  <2>2. esp' = esp \/ esp' = PoweredUp
    BY <2>1, HciFlagIsSet, FlagEffect
  <2> QED BY <2>2, ModulePowered, Zenon
<1>4. CASE Restart
  <2>1. esp' = EspOff
    BY <1>4, Zenon DEF Restart
  <2> QED BY <2>1, ModulePowered
<1>5. CASE HciMessage \/ AppMessage \/ AppEvent \/ HalLine
  <2>1. esp' = esp
    BY <1>5, Zenon DEF HciMessage, AppMessage, AppEvent, HalLine, espVars
  <2> QED BY <2>1
<1>6. CASE Aside
  <2>1. esp' = esp
    BY <1>1, <1>6, AsideRests
  <2> QED BY <2>1
<1> QED
  BY <1>2, <1>3, <1>4, <1>5, <1>6, Zenon DEF Next, Tasks, Environment, Aside

(* The task opens a socket only where nothing speaks of one.               *)
LEMMA FlagForeseen ==
  ASSUME IInv, Foreseen, Chains, Module(esp), OpeningLaw, HciEvent
  PROVE  Foreseen'
<1>1. /\ Typed /\ hci \in HciType /\ hci.events # {} /\ cmds \in Seq(Command)
      /\ HciProcessEvent(HciFlag)
      /\ mail = << >> /\ mail' = mail /\ wire' = wire /\ UNCHANGED atVars
  BY Zenon DEF IInv, Typed, Firmware, Serial, HciEvent
<1>2. Now' = Now
  BY <1>1 DEF atVars, Now
<1>3. /\ \/ cmds' = cmds
         \/ \E c : cmds' = Append(cmds, c) /\ c.at # "AT+CIPSTART"
         \/ OpensSocket
      /\ esp' = esp \/ esp' = PoweredUp
  BY <1>1, HciFlagIsSet, FlagEffect, Zenon
<1>4. esp'.busy = esp.busy /\ esp'.smart = esp.smart /\ (esp'.sckt => esp.sckt)
  <2>1. CASE esp' = esp
    BY <2>1
  <2>2. CASE esp' = PoweredUp
    <3> DEFINE p == PoweredUp
    <3>1. p.busy = esp.busy /\ p.smart = esp.smart /\ (p.sckt => esp.sckt)
      BY ModulePowered
    <3> HIDE DEF p
    <3>2. esp' = p
      BY <2>2 DEF p
    <3> QED BY <3>1, <3>2
  <2> QED BY <1>3, <2>1, <2>2
<1>5. CASE cmds' = cmds \/ \E c : cmds' = Append(cmds, c) /\ c.at # "AT+CIPSTART"
  <2>1. HasOpen(cmds') => HasOpen(cmds)
    BY <1>1, <1>5, OpensNoMore
  <2>2. Ends(esp, cmds) \subseteq Ends(esp', cmds')
    BY <1>4, <2>1, EndsAlike
  <2>3. Onward
    BY <1>1, <2>2, SilentOnward
  <2> QED BY <1>1, <1>2, <2>3, StillForeseen
<1>6. CASE OpensSocket
  <2>1. cmds' = Append(cmds, AT("AT+CIPSTART")) /\ JoinedLike(hci.curState) /\ Able
    BY <1>6, StateParts DEF OpensSocket, Able, JoinedLike, NoSocket
  <2>2. ~OnWay
    BY <2>1 DEF OpeningLaw
  <2> QED BY <1>1, <1>2, <1>4, <2>1, <2>2, OpeningForeseen
<1> QED BY <1>3, <1>5, <1>6

(* Whatever is done, what is said will be understood.                      *)
LEMMA ForeseenStep ==
  ASSUME IInv, IInv', Foreseen, Chains, Module(esp), OpeningLaw, [Next]_vars
  PROVE  Foreseen'
<1>1. Typed
  BY DEF IInv
<1>2. CASE Outside
  <2> DEFINE caught == Idle /\ wire = << >>
  <2>1. EspNext(caught) /\ mail' = mail /\ UNCHANGED atVars
    BY <1>2, Zenon DEF Outside
  <2> HIDE DEF caught
  <2>2. Onward
    BY <1>1, <2>1, ModuleForeseen DEF OpeningLaw
  <2>3. Now' = Now
    BY <2>1 DEF atVars, Now
  <2> QED BY <1>1, <2>1, <2>2, <2>3, StillForeseen
<1>3. CASE Aside \/ AppEvent \/ AppMessage
  <2>1. esp' = esp /\ cmds' = cmds /\ wire' = wire /\ mail' = mail /\ atVars' = atVars
    <3>1. Aside => esp' = esp /\ cmds' = cmds /\ wire' = wire /\ mail' = mail /\ atVars' = atVars
      BY <1>1, AsideRests
    <3>2. AppEvent \/ AppMessage
            => esp' = esp /\ cmds' = cmds /\ wire' = wire /\ mail' = mail /\ atVars' = atVars
      BY Zenon DEF AppEvent, AppMessage, espVars
    <3> QED BY <1>3, <3>1, <3>2
  <2>2. Now' = Now
    BY <2>1 DEF atVars, Now
  <2> QED BY <2>1, <2>2, Zenon DEF Foreseen
<1> QED
  BY <1>1, <1>2, <1>3, MessageForeseen, LineForeseen, FlagForeseen, Anew, Zenon
     DEF Next, Tasks, Environment, Aside

(* The chains do not break where nothing is posted.                        *)
LEMMA ChainsDrift ==
  ASSUME hci \in HciType, hci' \in HciType, Chains, mail' = mail, Now' = Now,
         hci.pConnInitStruct \in LinkRule.holds => hci'.pConnInitStruct \in LinkRule.holds,
         hci.pSocketInitStruct \in SocketRule.holds
           => hci'.pSocketInitStruct \in SocketRule.holds,
         Alike(hci.curState, hci'.curState) \/ Alike(Zero, hci'.curState)
  PROVE  Chains'
<1>1. hci.curState \in State /\ hci'.curState \in State
  BY DEF HciType, State
<1>2. hci.curState \in OpeningRule.holds => hci'.curState \in OpeningRule.holds
  BY <1>1, StillApart
<1> DEFINE m == mail
           c == Now
<1>3. Chain(LinkRule, m, hci'.pConnInitStruct, c)
  BY ChainSame DEF Chains
<1>4. Chain(SocketRule, m, hci'.pSocketInitStruct, c)
  BY ChainSame DEF Chains
<1>5. Chain(OpeningRule, m, hci'.curState, c)
  BY <1>2, ChainSame DEF Chains
<1> QED BY <1>3, <1>4, <1>5, Zenon DEF Chains

(* The chains never break.                                                 *)
LEMMA ChainsStep ==
  ASSUME IInv, IInv', Foreseen, Chains, [Next]_vars
  PROVE  Chains'
<1>1. Typed /\ hci \in HciType /\ hci' \in HciType /\ Core
  BY Parts, Zenon DEF IInv, Typed, Firmware
<1>2. ASSUME Drift(hci, hci'), mail' = mail, atVars' = atVars PROVE Chains'
  <2>1. Now' = Now
    BY <1>2 DEF atVars, Now
  <2> QED BY <1>1, <1>2, <2>1, ChainsDrift DEF Drift
<1>3. CASE HciMessage
  BY <1>1, <1>3, MessageEffect, ChainsAfterLine, ChainsAfterState, ChainsAfterOther,
       Zenon
<1>4. CASE HciEvent
  <2>1. hci.events # {} /\ HciProcessEvent(HciFlag) /\ mail' = mail /\ atVars' = atVars
    BY <1>4, Zenon DEF HciEvent
  <2>2. Drift(hci, hci')
    BY <1>1, <2>1, HciFlagIsSet, FlagEffect, Zenon
  <2> QED BY <1>2, <2>1, <2>2
<1>5. CASE AppMessage
  <2>1. ProcessOsalMsgKey(Head(keys)) /\ mail' = mail /\ atVars' = atVars
    BY <1>5, Zenon DEF AppMessage
  <2> QED BY <1>1, <1>2, <2>1, KeyCalm, CalmDrift
<1>6. CASE AppEvent
  <2>1. /\ ProcessEvent(AppFlag) /\ FailedByEvent(AppFlag) = {} /\ mail' = mail
        /\ atVars' = atVars
    BY <1>6, Zenon DEF AppEvent
  <2>2. Now' = Now
    BY <2>1 DEF atVars, Now
  <2>3. AsksForSocket \/ AsksForConnection \/ Calm(hci, hci')
    BY <1>1, <2>1, AppEffect, Zenon
  <2>4. CASE AsksForSocket
    BY <1>1, <2>1, <2>2, <2>4, ChainsDrift DEF AsksForSocket, Alike, SocketRule
  <2>5. CASE AsksForConnection
    BY <1>1, <2>1, <2>2, <2>5, ChainsDrift DEF AsksForConnection, Alike, LinkRule
  <2> QED BY <1>2, <2>1, <2>3, <2>4, <2>5, CalmDrift
<1>7. CASE HalLine
  <2> DEFINE x == [head |-> "ATCmd", line |-> Head(wire)]
             c == Now
  <2>1. mail' = Append(mail, x) /\ hci' = hci /\ atVars' = atVars
    BY <1>7, Zenon DEF HalLine, x
  <2>2. Now' = c /\ x.head = "ATCmd" /\ mail \in Seq(Message)
    BY <1>1, <2>1 DEF atVars, Now, Typed, Firmware
  <2> HIDE DEF x, c
  <2>3. /\ Chain(LinkRule, mail, hci.pConnInitStruct, c)
        /\ Chain(SocketRule, mail, hci.pSocketInitStruct, c)
        /\ Chain(OpeningRule, mail, hci.curState, c)
    BY DEF Chains, c
  <2>4. /\ Chain(LinkRule, Append(mail, x), hci.pConnInitStruct, c)
        /\ Chain(SocketRule, Append(mail, x), hci.pSocketInitStruct, c)
        /\ Chain(OpeningRule, Append(mail, x), hci.curState, c)
    <3>1. /\ x \notin LinkRule.due /\ x \notin LinkRule.ends
          /\ x \notin SocketRule.due /\ x \notin SocketRule.ends
          /\ x \notin OpeningRule.due /\ x \notin OpeningRule.ends
      BY <2>2, NoRule
    <3> QED BY <2>2, <2>3, <3>1, ChainPost
  <2> QED BY <2>1, <2>2, <2>4 DEF Chains
<1>8. CASE Outside
  <2>1. hci' = hci /\ mail' = mail /\ atVars' = atVars
    BY <1>8, Zenon DEF Outside
  <2>2. Drift(hci, hci')
    BY <1>1, <2>1, SameCalm, CalmDrift
  <2> QED BY <1>2, <2>1, <2>2
<1>9. CASE Aside
  <2>1. Rests /\ mail' = mail /\ atVars' = atVars
    BY <1>1, <1>9, AsideRests
  <2>2. Now' = Now
    BY <2>1 DEF atVars, Now
  <2> QED BY <1>1, <2>1, <2>2, ChainsDrift DEF Rests, Alike
<1> QED
  BY <1>3, <1>4, <1>5, <1>6, <1>7, <1>8, <1>9, Anew, Zenon
     DEF Next, Tasks, Environment, Aside

-----------------------------------------------------------------------------
(* The law of the connection, and the contract with the application.       *)

(* An address is only reported where a connection was asked for.           *)
LEMMA MadeAsked ==
  ASSUME IInv, Chains, mail # << >>, ByState(Head(mail)), Made(Head(mail).state)
  PROVE  HasConn
<1>1. mail \in Seq(Message) /\ hci \in HciType
  BY Zenon DEF IInv, Typed, Firmware
<1>2. Head(mail) \in Message
  BY <1>1
<1>3. Head(mail) \in LinkRule.due
  BY <1>2, StateParts DEF ByState, Made, LinkRule
<1>4. hci.pConnInitStruct \in LinkRule.holds
  BY <1>1, <1>3, ChainHead DEF Chains
<1> QED BY <1>4 DEF LinkRule, HasConn

(* What keeps the law: the structs stay, and no address appears.           *)
LEMMA ConnectionDrifts ==
  ASSUME ConnectionLaw, hci'.pSocketInitStruct = hci.pSocketInitStruct,
         hci'.pConnInitStruct = hci.pConnInitStruct,
         JoinedLike(hci'.curState) => JoinedLike(hci.curState)
  PROVE  ConnectionLaw'
BY DEF ConnectionLaw

(* A posted state keeps it.                                                *)
LEMMA ConnectionByState ==
  ASSUME IInv, Chains, ConnectionLaw, mail # << >>, ByState(Head(mail))
  PROVE  ConnectionLaw'
<1> DEFINE s == Head(mail).state
<1>1. s \in State /\ (Undisturbed(s) \/ Lost(s) \/ Made(s) \/ OpenedUp(s))
  BY Zenon DEF ByState, s
<1>2. Made(s) => HasConn
  BY MadeAsked
<1>3. hci \in HciType
  BY Zenon DEF IInv, Typed, Firmware
<1> HIDE DEF s
<1>4. CASE Undisturbed(s)
  <2>1. ~JoinedLike(s)
    <3>1. ASSUME JoinedLike(s) PROVE s.sckt = "Closed" /\ s.conn = "GotIP"
      BY <3>1 DEF JoinedLike
    <3> QED BY <1>4, <3>1 DEF Undisturbed, Passing
  <2>2. ~JoinedLike(hci'.curState)
    BY <1>4, <2>1, StateParts DEF Undisturbed, Alike, JoinedLike
  <2> QED BY <1>4, <2>2, ConnectionDrifts DEF Undisturbed
<1>5. CASE Lost(s)
  <2>1. ~JoinedLike(hci'.curState)
    BY <1>5, StateParts DEF Lost, Alike, JoinedLike
  <2> QED BY <1>5, <2>1 DEF Lost, ConnectionLaw
<1>6. CASE Made(s)
  BY <1>2, <1>6 DEF Made, ConnectionLaw
<1>7. CASE OpenedUp(s)
  <2>1. ~JoinedLike(hci'.curState)
    BY <1>7, StateParts DEF OpenedUp, Alike, JoinedLike
  <2> QED BY <1>7, <2>1 DEF OpenedUp, ConnectionLaw, NoSocket
<1> QED BY <1>1, <1>4, <1>5, <1>6, <1>7

(* So does every step.                                                     *)
LEMMA ConnectionStep ==
  ASSUME IInv, IInv', Chains, ConnectionLaw, [Next]_vars
  PROVE  ConnectionLaw'
<1>1. Typed /\ hci \in HciType /\ hci' \in HciType /\ Core
  BY Parts, Zenon DEF IInv, Typed, Firmware
<1>2. ASSUME Drift(hci, hci') PROVE ConnectionLaw'
  BY <1>2, DriftAble, ConnectionDrifts
<1>3. CASE HciMessage
  <2>1. /\ mail # << >>
        /\ ByLine(Head(mail)) \/ ByState(Head(mail)) \/ ByOther(Head(mail))
    BY <1>3, MessageEffect
  <2>2. ByLine(Head(mail)) \/ ByOther(Head(mail)) => Drift(hci, hci')
    BY CalmDrift DEF ByLine, ByOther
  <2> QED BY <1>2, <2>1, <2>2, ConnectionByState
<1>4. CASE HciEvent
  <2>1. hci.events # {} /\ HciProcessEvent(HciFlag)
    BY <1>4, Zenon DEF HciEvent
  <2>2. Drift(hci, hci')
    BY <1>1, <2>1, HciFlagIsSet, FlagEffect, Zenon
  <2> QED BY <1>2, <2>2
<1>5. CASE AppMessage
  <2>1. ProcessOsalMsgKey(Head(keys))
    BY <1>5, Zenon DEF AppMessage
  <2> QED BY <1>1, <1>2, <2>1, KeyCalm, CalmDrift
<1>6. CASE AppEvent
  <2>1. ProcessEvent(AppFlag) /\ FailedByEvent(AppFlag) = {}
    BY <1>6, Zenon DEF AppEvent
  <2>2. AsksForSocket \/ AsksForConnection \/ Calm(hci, hci')
    BY <1>1, <2>1, AppEffect, Zenon
  <2>3. CASE AsksForSocket
    <3>1. JoinedLike(hci.curState)
      BY <2>3, StateParts DEF AsksForSocket, JoinedLike
    <3> QED BY <2>3, <3>1 DEF AsksForSocket, ConnectionLaw
  <2>4. CASE AsksForConnection
    <3>1. hci.pSocketInitStruct = "NULL"
      BY <2>4 DEF AsksForConnection, ConnectionLaw
    <3>2. ~JoinedLike(hci'.curState)
      BY <2>4, StateParts DEF AsksForConnection, JoinedLike
    <3> QED BY <2>4, <3>1, <3>2 DEF AsksForConnection, ConnectionLaw
  <2> QED BY <1>2, <2>2, <2>3, <2>4, CalmDrift
<1>7. CASE HalLine \/ Outside
  <2>1. hci' = hci
    BY <1>7, Zenon DEF HalLine, Outside
  <2> QED BY <2>1, ConnectionDrifts
<1>8. CASE Aside
  BY <1>1, <1>8, AsideRests, ConnectionDrifts DEF Rests
<1>9. CASE Restart
  <2>1. hci' = HciWiFi_Init
    BY <1>9, Zenon DEF Restart
  <2> QED BY <2>1, StateParts DEF HciWiFi_Init, ConnectionLaw, JoinedLike
<1> QED
  BY <1>3, <1>4, <1>5, <1>6, <1>7, <1>8, <1>9, Zenon DEF Next, Tasks, Environment, Aside

(* What the HCI and the application know of each other.                    *)
Dialogue ==
  /\ IInv /\ Module(esp) /\ Foreseen /\ Chains
  /\ OpeningLaw /\ ConnectionLaw

(* It holds at the start ...                                               *)
LEMMA DialogueInit == Init => Dialogue
<1> SUFFICES ASSUME Init PROVE Dialogue
  OBVIOUS
<1>1. IInv
  BY InitIInv
<1>2. /\ hci = HciWiFi_Init /\ mail = << >> /\ wire = << >> /\ cmds = << >> /\ esp = EspOff
      /\ hciWiFiState = Zero /\ pfnATCmdProcessor = "NULL" /\ errReason = FALSE
      /\ appEvents = {} /\ held = {}
  BY Zenon DEF Init, HciWiFiInit, EspInit, AppLock_Init, KernelInit
<1>3. Now = Unaware
  BY <1>2, StateParts DEF Now, Unaware
<1>4. Foreseen /\ Chains
  <2> HIDE DEF Unaware
  <2>1. Foreseen
    BY <1>2, <1>3, NothingSaid, Zenon DEF Foreseen
  <2>2. Chains
    BY <1>2, <1>3, NothingSaid, NoChain, Zenon DEF Chains
  <2> QED BY <2>1, <2>2
<1>5. Module(esp)
  BY <1>2 DEF Module, EspOff, Works, Servers
<1>6. hci.pSocketInitStruct = "NULL" /\ ~JoinedLike(hci.curState)
  BY <1>2, StateParts DEF HciWiFi_Init, JoinedLike
<1>7. OpeningLaw
  BY <1>2, <1>6 DEF OpeningLaw, OnWay, HasOpen, AsksIn, Able, Wishes, Once
<1>8. ConnectionLaw
  BY <1>6 DEF ConnectionLaw
<1> QED BY <1>1, <1>4, <1>5, <1>7, <1>8 DEF Dialogue

(* ... and after every step.                                               *)
LEMMA DialogueStep == Dialogue /\ [Next]_vars => Dialogue'
<1> SUFFICES ASSUME Dialogue, [Next]_vars PROVE Dialogue'
  OBVIOUS
<1>1. IInv /\ Module(esp) /\ Foreseen /\ Chains /\ OpeningLaw /\ ConnectionLaw
  BY Zenon DEF Dialogue
<1>2. IInv'
  BY <1>1, CoreNext, OthersNext, PartsNext, Zenon
<1>3. Module(esp') /\ Foreseen' /\ Chains' /\ OpeningLaw' /\ ConnectionLaw'
  BY <1>1, <1>2, ModuleStep, ForeseenStep, ChainsStep, OpeningStep, ConnectionStep,
       Zenon
<1> QED BY <1>2, <1>3, Zenon DEF Dialogue

(* What was received is for an open socket.                                *)
LEMMA DialogueData == Dialogue => DataToOpenSocket
<1> SUFFICES ASSUME Dialogue, mail # << >>, Head(mail).head = "RxDataStream"
             PROVE  hci.pSocketInitStruct = "Opened"
  BY Zenon DEF DataToOpenSocket
<1>1. mail \in Seq(Message) /\ Chains
  BY Zenon DEF Dialogue, IInv, Typed, Firmware
<1>2. Head(mail) \in SocketRule.due
  <2>1. Head(mail) \in Message
    BY <1>1
  <2> QED BY <2>1 DEF SocketRule
<1>3. hci.pSocketInitStruct \in SocketRule.holds
  BY <1>1, <1>2, ChainHead DEF Chains
<1> QED BY <1>3 DEF SocketRule

-----------------------------------------------------------------------------
(* The steps of the contract.                                              *)
Contract == [Sessions!Next]_<<hci.pConnInitStruct, wsState>>

(* The steps it allows.                                                    *)
LEMMA ContractSteps ==
  /\ hci'.pConnInitStruct = hci.pConnInitStruct /\ wsState' = wsState => Contract
  /\ Sessions!Connect => Contract
  /\ Sessions!Connected => Contract
  /\ Sessions!Disconnected => Contract
  /\ Sessions!Open => Contract
  /\ Sessions!Opened => Contract
  /\ Sessions!Accepted => Contract
  /\ Sessions!Leave => Contract
  /\ Sessions!Closed => Contract
  /\ Sessions!Reset => Contract
<1>1. hci'.pConnInitStruct = hci.pConnInitStruct /\ wsState' = wsState => Contract
  BY DEF Contract
<1>2. Sessions!Next => Contract
  BY DEF Contract
<1> QED BY <1>1, <1>2, Zenon DEF Sessions!Next

(* A websocket talks within the contract.                                  *)
LEMMA TalksContract ==
  ASSUME hci'.pConnInitStruct = hci.pConnInitStruct, Talks
  PROVE  Contract
<1>1. CASE wsState' = wsState
  BY <1>1, ContractSteps
<1>2. CASE wsState = "Handshaking" /\ wsState' = "HandshakePass"
  <2>1. Sessions!Accepted
    BY <1>2 DEF Sessions!Accepted, Sessions!Step
  <2> QED BY <2>1, ContractSteps
<1>3. CASE wsState \in {"Handshaking", "HandshakePass"} /\ wsState' = "Closing"
  <2>1. Sessions!Leave
    BY <1>3 DEF Sessions!Leave, Sessions!Step
  <2> QED BY <2>1, ContractSteps
<1> QED BY <1>1, <1>2, <1>3 DEF Talks

(* A posted state is a step of the contract, or none.                      *)
LEMMA StateContract ==
  ASSUME Dialogue, mail # << >>, ByState(Head(mail))
  PROVE  Contract
<1> DEFINE s == Head(mail).state
<1>1. s \in State /\ (Undisturbed(s) \/ Lost(s) \/ Made(s) \/ OpenedUp(s))
  BY Zenon DEF ByState, s
<1>2. IInv /\ Chains /\ ConnectionLaw /\ hci \in HciType /\ wsState \in WsStates
      /\ WebSocketFollowsSocket
  BY Zenon DEF Dialogue, IInv, Typed, Firmware
<1>3. Made(s) => HasConn
  BY <1>2, MadeAsked
<1>4. /\ wsState = "Closed" <=> hci.pSocketInitStruct = "NULL"
      /\ wsState = "Opening" <=> hci.pSocketInitStruct = "Opening"
      /\ hci.pSocketInitStruct # "NULL" => hci.pConnInitStruct = "Connected"
      /\ hci.pConnInitStruct \in {"NULL", "Connecting", "Connected"}
  BY <1>2, Zenon DEF WebSocketFollowsSocket, ConnectionLaw, HciType
<1> HIDE DEF s
<1>5. CASE Undisturbed(s)
  BY <1>5, ContractSteps DEF Undisturbed
<1>6. CASE Lost(s)
  <2>1. hci'.pConnInitStruct = "NULL" /\ wsState' = "Closed"
    BY <1>4, <1>6 DEF Lost, NoSocket
  <2>2. CASE hci.pConnInitStruct = "NULL"
    BY <1>4, <2>1, <2>2, ContractSteps
  <2>3. CASE hci.pConnInitStruct # "NULL"
    <3>1. Sessions!Disconnected
      BY <2>1, <2>3 DEF Sessions!Disconnected
    <3> QED BY <3>1, ContractSteps
  <2> QED BY <2>2, <2>3
<1>7. CASE Made(s)
  <2>1. /\ hci'.pConnInitStruct = "Connected" /\ hci.pConnInitStruct # "NULL"
        /\ wsState' = IF NoSocket THEN wsState ELSE "Closed"
    BY <1>3, <1>7 DEF Made, HasConn
  <2>2. CASE ~NoSocket
    <3>1. /\ hci'.pConnInitStruct = hci.pConnInitStruct /\ wsState' = "Closed"
          /\ wsState \in {"Opening", "Handshaking", "HandshakePass", "Closing"}
      BY <1>2, <1>4, <2>1, <2>2 DEF NoSocket, WsStates
    <3>2. Sessions!Closed
      BY <3>1 DEF Sessions!Closed, Sessions!Step
    <3> QED BY <3>2, ContractSteps
  <2>3. CASE NoSocket /\ hci.pConnInitStruct = "Connecting"
    <3>1. Sessions!Connected
      BY <2>1, <2>3 DEF Sessions!Connected
    <3> QED BY <3>1, ContractSteps
  <2>4. CASE NoSocket /\ hci.pConnInitStruct = "Connected"
    BY <2>1, <2>4, ContractSteps
  <2> QED BY <1>4, <2>1, <2>2, <2>3, <2>4
<1>8. CASE OpenedUp(s)
  <2>1. CASE hci.pSocketInitStruct = "Opening"
    <3>1. Sessions!Opened
      BY <1>4, <1>8, <2>1 DEF OpenedUp, Sessions!Opened, Sessions!Step
    <3> QED BY <3>1, ContractSteps
  <2>2. CASE hci.pSocketInitStruct # "Opening"
    BY <1>8, <2>2, ContractSteps DEF OpenedUp
  <2> QED BY <2>1, <2>2
<1> QED BY <1>1, <1>5, <1>6, <1>7, <1>8

(* So is an event of the application.                                      *)
LEMMA EventContract ==
  ASSUME Dialogue, AppEvent
  PROVE  Contract
<1>1. /\ Core /\ ProcessEvent(AppFlag) /\ FailedByEvent(AppFlag) = {}
      /\ ConnectionLaw /\ WebSocketFollowsSocket
  BY Parts, Zenon DEF Dialogue, IInv, AppEvent
<1>2. AsksForSocket \/ AsksForConnection \/ (Calm(hci, hci') /\ Talks)
  BY <1>1, AppEffect, Zenon
<1>3. CASE AsksForSocket
  <2>1. hci.pConnInitStruct = "Connected" /\ wsState = "Closed"
    BY <1>1, <1>3, StateParts
       DEF AsksForSocket, ConnectionLaw, JoinedLike, WebSocketFollowsSocket
  <2>2. Sessions!Open
    BY <1>3, <2>1 DEF AsksForSocket, Sessions!Open, Sessions!Step
  <2> QED BY <2>2, ContractSteps
<1>4. CASE AsksForConnection
  <2>1. Sessions!Connect
    BY <1>4 DEF AsksForConnection, Sessions!Connect
  <2> QED BY <2>1, ContractSteps
<1>5. CASE Calm(hci, hci') /\ Talks
  BY <1>5, TalksContract DEF Calm, Keeps
<1> QED BY <1>2, <1>3, <1>4, <1>5

(* And every other step.                                                   *)
LEMMA ContractStep ==
  ASSUME Dialogue, [Next]_vars
  PROVE  Contract
<1>1. Typed /\ hci \in HciType /\ IInv
  BY Zenon DEF Dialogue, IInv, Typed, Firmware
<1>2. ASSUME Drift(hci, hci'), wsState' = wsState PROVE Contract
  BY <1>2, ContractSteps DEF Drift
<1>3. CASE HciMessage
  <2>1. /\ mail # << >>
        /\ ByLine(Head(mail)) \/ ByState(Head(mail)) \/ ByOther(Head(mail))
    BY <1>1, <1>3, MessageEffect
  <2>2. ByLine(Head(mail)) \/ ByOther(Head(mail)) => Calm(hci, hci') /\ Talks
    BY DEF ByLine, ByOther
  <2>3. Calm(hci, hci') /\ Talks => Contract
    BY TalksContract DEF Calm, Keeps
  <2> QED BY <2>1, <2>2, <2>3, StateContract
<1>4. CASE HciEvent
  <2>1. hci.events # {} /\ HciProcessEvent(HciFlag) /\ wsState' = wsState
    BY <1>4, Zenon DEF HciEvent, wsVars
  <2>2. Drift(hci, hci')
    BY <1>1, <2>1, HciFlagIsSet, FlagEffect, Zenon
  <2> QED BY <1>2, <2>1, <2>2
<1>5. CASE AppMessage
  <2>1. ProcessOsalMsgKey(Head(keys)) /\ wsState' = wsState
    BY <1>5, Zenon DEF AppMessage, wsVars
  <2> QED BY <1>1, <1>2, <2>1, KeyCalm, CalmDrift
<1>6. CASE HalLine \/ Outside
  <2>1. hci' = hci /\ wsState' = wsState
    BY <1>6, Zenon DEF HalLine, Outside, wsVars
  <2> QED BY <2>1, ContractSteps
<1>7. CASE Aside
  <2>1. Rests /\ wsVars' = wsVars
    BY <1>1, <1>7, AsideRests
  <2> QED BY <2>1, ContractSteps DEF Rests, wsVars
<1>8. CASE Restart
  <2>1. hci' = HciWiFi_Init /\ wsState' = "Closed"
    BY <1>8, Zenon DEF Restart
  <2>2. Sessions!Reset
    BY <2>1 DEF HciWiFi_Init, Sessions!Reset
  <2> QED BY <2>2, ContractSteps
<1> QED
  BY <1>3, <1>4, <1>5, <1>6, <1>7, <1>8, EventContract, Zenon
     DEF Next, Tasks, Environment, Aside

-----------------------------------------------------------------------------
(* Data reaches the application only while its socket is open, whatever    *)
(* was still on the wire or in the queue when a connection went away.      *)
THEOREM DataReachesOpenSocket == Spec => []DataToOpenSocket
BY DialogueInit, DialogueStep, DialogueData, PTL DEF Spec

(* The tasks keep the contract of module Session: a websocket is opened    *)
(* over a connection that was made, shakes hands before it passes and goes *)
(* with its connection, whatever the module says and what goes wrong.      *)
THEOREM SessionsInOrder == Spec => SessionOrder
<1>1. Init => Sessions!Init
  <2>1. HciWiFi_Init.pConnInitStruct = "NULL"
    BY DEF HciWiFi_Init
  <2> QED BY <2>1, Zenon DEF Init, HciWiFiInit, WsInit, Sessions!Init
<1>2. Dialogue /\ [Next]_vars => [Sessions!Next]_<<hci.pConnInitStruct, wsState>>
  BY ContractStep, Zenon DEF Contract
<1> QED
  BY <1>1, <1>2, DialogueInit, DialogueStep, PTL DEF Spec, SessionOrder, Sessions!Spec

-----------------------------------------------------------------------------
(* One connection.  While the module has a connection, or opens one, the   *)
(* firmware knows it or is about to hear of it: AT+CIPSTART is echoed on   *)
(* the way or was heard, and nothing behind it tells of an end.  This does *)
(* not look ahead: it also holds where a line will fail an assertion.      *)

Enders == {"CLOSED", "ERROR", "AT+CIPCLOSE"}

(* The first n words of s tell of no end; the last that opens is an echo.  *)
Clean(s, n) == \A k \in 1 .. n : s[k] \notin Enders
Fresh(s, n) ==
  \E k \in 1 .. n : s[k] = "AT+CIPSTART" /\ \A l \in k + 1 .. n : s[l] \notin Enders

(* The words that are on the wire, and in the queue of messages.           *)
WordOf(msg) == IF msg.head = "ATCmd" THEN msg.line.at ELSE "none"
OnWire(w) == [k \in 1 .. Len(w) |-> w[k].at]
InMail(m) == [k \in 1 .. Len(m) |-> WordOf(m[k])]

Up(c) == c.sckt \in {"Opening", "Opened"} /\ c.proc # "CIPCLOSE"

(* What is in the queue m, on the wire w and known as c tells of a socket. *)
Told(m, w, c) ==
  \/ Fresh(OnWire(w), Len(w))
  \/ /\ Clean(OnWire(w), Len(w))
     /\ \/ Fresh(InMail(m), Len(m))
        \/ Clean(InMail(m), Len(m)) /\ Up(c)

Owns == esp.sckt \/ esp.busy = "AT+CIPSTART"

Pledge == Owns => Told(mail, wire, Now)

(* One word more, ...                                                      *)
LEMMA WordMore ==
  ASSUME NEW n \in Nat, NEW s, NEW t, \A k \in 1 .. n : t[k] = s[k]
  PROVE  /\ t[n + 1] \notin Enders => /\ Clean(s, n) => Clean(t, n + 1)
                                      /\ Fresh(s, n) => Fresh(t, n + 1)
         /\ t[n + 1] = "AT+CIPSTART" => Fresh(t, n + 1)
<1>1. ASSUME t[n + 1] \notin Enders, Clean(s, n) PROVE Clean(t, n + 1)
  <2>1. ASSUME NEW k \in 1 .. n + 1 PROVE t[k] \notin Enders
    <3>1. CASE k = n + 1
      BY <1>1, <3>1
    <3>2. CASE k # n + 1
      <4>1. k \in 1 .. n
        BY <3>2
      <4> QED BY <1>1, <4>1 DEF Clean
    <3> QED BY <3>1, <3>2
  <2> QED BY <2>1 DEF Clean
<1>2. ASSUME t[n + 1] \notin Enders, Fresh(s, n) PROVE Fresh(t, n + 1)
  <2>1. PICK k \in 1 .. n : s[k] = "AT+CIPSTART" /\ \A l \in k + 1 .. n : s[l] \notin Enders
    BY <1>2 DEF Fresh
  <2>2. k \in 1 .. n + 1 /\ t[k] = "AT+CIPSTART"
    BY <2>1
  <2>3. ASSUME NEW l \in k + 1 .. n + 1 PROVE t[l] \notin Enders
    <3>1. CASE l = n + 1
      BY <1>2, <3>1
    <3>2. CASE l # n + 1
      <4>1. l \in 1 .. n /\ l \in k + 1 .. n
        BY <3>2
      <4>2. t[l] = s[l] /\ s[l] \notin Enders
        BY <2>1, <4>1
      <4> QED BY <4>2
    <3> QED BY <3>1, <3>2
  <2> QED BY <2>2, <2>3 DEF Fresh
<1>3. ASSUME t[n + 1] = "AT+CIPSTART" PROVE Fresh(t, n + 1)
  <2>1. n + 1 \in 1 .. n + 1 /\ \A l \in (n + 1) + 1 .. n + 1 : FALSE
    OBVIOUS
  <2> QED BY <1>3, <2>1 DEF Fresh
<1> QED BY <1>1, <1>2, <1>3

(* ... and one less.                                                       *)
LEMMA WordLess ==
  ASSUME NEW n \in Nat, n > 0, NEW s, NEW t, \A k \in 1 .. n - 1 : t[k] = s[k + 1]
  PROVE  /\ Clean(s, n) => Clean(t, n - 1) /\ s[1] \notin Enders
         /\ Fresh(s, n) => Fresh(t, n - 1) \/ (s[1] = "AT+CIPSTART" /\ Clean(t, n - 1))
<1>1. ASSUME Clean(s, n) PROVE Clean(t, n - 1) /\ s[1] \notin Enders
  <2>1. ASSUME NEW k \in 1 .. n - 1 PROVE t[k] \notin Enders
    <3>1. k + 1 \in 1 .. n
      OBVIOUS
    <3> QED BY <1>1, <3>1 DEF Clean
  <2>2. 1 \in 1 .. n
    OBVIOUS
  <2> QED BY <1>1, <2>1, <2>2 DEF Clean
<1>2. ASSUME Fresh(s, n) PROVE Fresh(t, n - 1) \/ (s[1] = "AT+CIPSTART" /\ Clean(t, n - 1))
  <2>1. PICK k \in 1 .. n : s[k] = "AT+CIPSTART" /\ \A l \in k + 1 .. n : s[l] \notin Enders
    BY <1>2 DEF Fresh
  <2>2. ASSUME NEW l \in 1 .. n - 1, l >= k PROVE t[l] \notin Enders
    <3>1. l + 1 \in k + 1 .. n
      BY <2>2
    <3>2. t[l] = s[l + 1] /\ s[l + 1] \notin Enders
      BY <2>1, <3>1
    <3> QED BY <3>2
  <2>3. CASE k = 1
    BY <2>1, <2>2, <2>3 DEF Clean
  <2>4. CASE k # 1
    <3>1. k - 1 \in 1 .. n - 1 /\ (k - 1) + 1 = k
      BY <2>4
    <3>2. t[k - 1] = "AT+CIPSTART"
      BY <2>1, <3>1
    <3>3. ASSUME NEW l \in (k - 1) + 1 .. n - 1 PROVE t[l] \notin Enders
      <4>1. l \in 1 .. n - 1 /\ l >= k
        BY <3>1
      <4> QED BY <2>2, <4>1
    <3> QED BY <3>1, <3>2, <3>3 DEF Fresh
  <2> QED BY <2>3, <2>4
<1> QED BY <1>1, <1>2

(* What a line leaves of the socket.                                       *)
LEMMA TakesUp ==
  ASSUME NEW c, NEW at, NEW d, Takes(c, at, d)
  PROVE  /\ at = "AT+CIPSTART" => Up(d)
         /\ Up(c) /\ at \notin Enders => Up(d)
<1>1. at = "AT+CIPSTART" => d.sckt = "Opening" /\ d.proc = "CIPSTART"
  BY DEF Takes, JoinTakes, SmartTakes, OpenTakes, OtherTakes, AnyTakes, EchoTakes, Is
<1>2. at \notin {"CLOSED", "ERROR"} /\ c.proc # "CIPCLOSE" /\ at # "AT+CIPCLOSE"
        => d.sckt \in {c.sckt, "Opened", "Opening"} /\ d.proc # "CIPCLOSE"
  BY DEF Takes, JoinTakes, SmartTakes, OpenTakes, OtherTakes, AnyTakes, EchoTakes, Is
<1> QED BY <1>1, <1>2 DEF Up, Enders

(* A line more on the wire: it tells of no end, or opens.                  *)
LEMMA ToldMore ==
  ASSUME NEW m, NEW w \in Seq(Line), NEW c, NEW x \in Line
  PROVE  /\ Told(m, w, c) /\ x.at \notin Enders => Told(m, Append(w, x), c)
         /\ x.at = "AT+CIPSTART" => Told(m, Append(w, x), c)
<1> DEFINE v == Append(w, x)
           s == OnWire(w)
           t == OnWire(v)
<1>1. /\ Len(w) \in Nat /\ Len(v) = Len(w) + 1 /\ v[Len(w) + 1] = x
      /\ \A k \in 1 .. Len(w) : v[k] = w[k]
  OBVIOUS
<1> HIDE DEF v
<1>2. (\A k \in 1 .. Len(w) : t[k] = s[k]) /\ t[Len(w) + 1] = x.at
  BY <1>1 DEF OnWire
<1> HIDE DEF s, t
<1>3. x.at \notin Enders => /\ Clean(s, Len(w)) => Clean(t, Len(v))
                            /\ Fresh(s, Len(w)) => Fresh(t, Len(v))
  BY <1>1, <1>2, WordMore
<1>4. x.at = "AT+CIPSTART" => Fresh(t, Len(v))
  BY <1>1, <1>2, WordMore
<1> QED BY <1>3, <1>4 DEF Told, s, t, v

(* A line comes into the queue.                                            *)
LEMMA ToldComes ==
  ASSUME NEW m \in Seq(Message), NEW w \in Seq(Line), w # << >>, NEW c, Told(m, w, c),
         NEW x \in Message, x.head = "ATCmd", x.line = Head(w)
  PROVE  Told(Append(m, x), Tail(w), c)
<1> DEFINE v == Tail(w)
           s == OnWire(w)
           t == OnWire(v)
           n == Append(m, x)
           p == InMail(m)
           q == InMail(n)
<1>1. /\ Len(w) \in Nat /\ Len(w) > 0 /\ Len(v) = Len(w) - 1 /\ w[1] = Head(w)
      /\ \A k \in 1 .. Len(v) : v[k] = w[k + 1]
  BY HeadTailProperties
<1>2. /\ Len(m) \in Nat /\ Len(n) = Len(m) + 1 /\ n[Len(m) + 1] = x
      /\ \A k \in 1 .. Len(m) : n[k] = m[k]
  OBVIOUS
<1> HIDE DEF v, n
<1>3. (\A k \in 1 .. Len(w) - 1 : t[k] = s[k + 1]) /\ s[1] = Head(w).at
  BY <1>1 DEF OnWire
<1>4. (\A k \in 1 .. Len(m) : q[k] = p[k]) /\ q[Len(m) + 1] = Head(w).at
  BY <1>2 DEF InMail, WordOf
<1> HIDE DEF s, t, p, q
<1>5. /\ Clean(s, Len(w)) => Clean(t, Len(w) - 1) /\ s[1] \notin Enders
      /\ Fresh(s, Len(w)) => Fresh(t, Len(w) - 1) \/ (s[1] = "AT+CIPSTART" /\ Clean(t, Len(w) - 1))
  BY <1>1, <1>3, WordLess
<1>6. /\ Head(w).at \notin Enders => /\ Clean(p, Len(m)) => Clean(q, Len(n))
                                     /\ Fresh(p, Len(m)) => Fresh(q, Len(n))
      /\ Head(w).at = "AT+CIPSTART" => Fresh(q, Len(n))
  BY <1>2, <1>4, WordMore
<1>7. Fresh(s, Len(w)) \/ /\ Clean(s, Len(w))
                          /\ Fresh(p, Len(m)) \/ (Clean(p, Len(m)) /\ Up(c))
  BY DEF Told, s, p
<1> QED BY <1>1, <1>3, <1>5, <1>6, <1>7 DEF Told, t, q, n, v

(* A message is worked off.                                                *)
LEMMA ToldHeard ==
  ASSUME NEW m \in Seq(Message), m # << >>, NEW w, NEW c, Told(m, w, c), NEW d,
         Heard(c, Head(m), d)
  PROVE  Told(Tail(m), w, d)
<1> DEFINE n == Tail(m)
           p == InMail(m)
           q == InMail(n)
           a == WordOf(Head(m))
<1>1. /\ Len(m) \in Nat /\ Len(m) > 0 /\ Len(n) = Len(m) - 1 /\ m[1] = Head(m)
      /\ \A k \in 1 .. Len(n) : n[k] = m[k + 1]
  BY HeadTailProperties
<1> HIDE DEF n
<1>2. (\A k \in 1 .. Len(m) - 1 : q[k] = p[k + 1]) /\ p[1] = a
  BY <1>1 DEF InMail
<1> HIDE DEF p, q
<1>3. /\ Clean(p, Len(m)) => Clean(q, Len(n)) /\ a \notin Enders
      /\ Fresh(p, Len(m)) => Fresh(q, Len(n)) \/ (a = "AT+CIPSTART" /\ Clean(q, Len(n)))
  BY <1>1, <1>2, WordLess
<1>4. (a = "AT+CIPSTART" => Up(d)) /\ (Up(c) /\ a \notin Enders => Up(d))
  <2>1. CASE Head(m).head = "ATCmd"
    <3>1. Takes(c, a, d)
      BY <2>1 DEF Heard, WordOf
    <3> HIDE DEF a
    <3> QED BY <3>1, TakesUp
  <2>2. CASE Head(m).head # "ATCmd"
    BY <2>2 DEF Heard, WordOf
  <2> QED BY <2>1, <2>2
<1> HIDE DEF a
<1>5. Fresh(OnWire(w), Len(w)) \/ /\ Clean(OnWire(w), Len(w))
                                  /\ Fresh(p, Len(m)) \/ (Clean(p, Len(m)) /\ Up(c))
  BY DEF Told, p
<1> QED BY <1>3, <1>4, <1>5 DEF Told, q, n

(* A message is posted that is no line.                                    *)
LEMMA ToldPosts ==
  ASSUME NEW m \in Seq(Message), NEW w, NEW c, Told(m, w, c), NEW x \in Message,
         x.head # "ATCmd"
  PROVE  Told(Append(m, x), w, c)
<1> DEFINE n == Append(m, x)
           p == InMail(m)
           q == InMail(n)
<1>1. /\ Len(m) \in Nat /\ Len(n) = Len(m) + 1 /\ n[Len(m) + 1] = x
      /\ \A k \in 1 .. Len(m) : n[k] = m[k]
  OBVIOUS
<1> HIDE DEF n
<1>2. (\A k \in 1 .. Len(m) : q[k] = p[k]) /\ q[Len(m) + 1] = "none"
  BY <1>1 DEF InMail, WordOf
<1> HIDE DEF p, q
<1>3. "none" \notin Enders
  BY DEF Enders
<1>4. /\ Clean(p, Len(m)) => Clean(q, Len(n))
      /\ Fresh(p, Len(m)) => Fresh(q, Len(n))
  BY <1>1, <1>2, <1>3, WordMore
<1> QED BY <1>4 DEF Told, p, q, n

(* Nothing tells of a socket where none is known and nothing opens one.    *)
LEMMA ToldNothing ==
  ASSUME NEW w, NEW c, Told(<< >>, w, c), ~HasOpen(w)
  PROVE  Up(c)
<1>1. ~Fresh(OnWire(w), Len(w))
  BY DEF Fresh, OnWire, HasOpen
<1>2. ~Fresh(InMail(<< >>), Len(<< >>))
  BY DEF Fresh
<1> QED BY <1>1, <1>2 DEF Told

-----------------------------------------------------------------------------
(* The module.  The words that tell of no end, and ways to say them.       *)
Peaceful == Words \ Enders

Peace ==
  \/ \E a \in Peaceful : Say(<<a>>)
  \/ \E a, b \in Peaceful : Say(<<a, b>>)
  \/ \E a, b, c \in Peaceful : Say(<<a, b, c>>)
  \/ \E data \in Payloads : SayIPD(data)
  \/ \E x, y \in Line : x.at \notin Enders /\ y.at \notin Enders /\ wire' = wire \o <<x, y>>

(* They take nothing back.                                                 *)
LEMMA PeaceTold ==
  ASSUME wire \in Seq(Line), Peace, NEW m, NEW c, Told(m, wire, c)
  PROVE  Told(m, wire', c)
<1>1. \A a \in Peaceful : a \in Words /\ AT(a) \in Line /\ AT(a).at \notin Enders
  BY WordsAreLines DEF Peaceful
<1>2. ASSUME NEW w \in Seq(Line), Told(m, w, c), NEW x \in Line, x.at \notin Enders
      PROVE  Append(w, x) \in Seq(Line) /\ Told(m, Append(w, x), c)
  BY <1>2, ToldMore
<1>3. ASSUME NEW a \in Peaceful, Say(<<a>>) PROVE Told(m, wire', c)
  <2>1. wire' = Append(wire, AT(a))
    BY <1>1, <1>3, SayLines, Zenon DEF Say
  <2> QED BY <1>1, <1>2, <2>1
<1>4. ASSUME NEW a \in Peaceful, NEW b \in Peaceful, Say(<<a, b>>) PROVE Told(m, wire', c)
  <2>1. wire' = Append(Append(wire, AT(a)), AT(b))
    BY <1>1, <1>4, SayLines, Zenon DEF Say
  <2>2. Append(wire, AT(a)) \in Seq(Line) /\ Told(m, Append(wire, AT(a)), c)
    BY <1>1, <1>2
  <2> QED BY <1>1, <1>2, <2>1, <2>2
<1>5. ASSUME NEW a \in Peaceful, NEW b \in Peaceful, NEW d \in Peaceful, Say(<<a, b, d>>)
      PROVE  Told(m, wire', c)
  <2> DEFINE v == Append(wire, AT(a))
             u == Append(v, AT(b))
  <2>1. wire' = Append(u, AT(d))
    <3>1. wire' = wire \o [i \in 1 .. Len(<<a, b, d>>) |-> AT(<<a, b, d>>[i])]
      BY <1>5, Zenon DEF Say
    <3>2. a \in Words /\ b \in Words /\ d \in Words
      BY <1>1
    <3> QED BY <3>1, <3>2, SayLines
  <2>2. v \in Seq(Line) /\ Told(m, v, c)
    BY <1>1, <1>2
  <2> HIDE DEF v
  <2>3. u \in Seq(Line) /\ Told(m, u, c)
    BY <1>1, <1>2, <2>2
  <2> HIDE DEF u
  <2> QED BY <1>1, <1>2, <2>1, <2>3
<1>6. ASSUME NEW data \in Payloads, SayIPD(data) PROVE Told(m, wire', c)
  <2>1. wire' = Append(wire, IPD(data)) /\ IPD(data) \in Line /\ IPD(data).at \notin Enders
    BY <1>6 DEF SayIPD, IPD, Line, Enders
  <2> QED BY <1>2, <2>1
<1>7. ASSUME NEW x \in Line, NEW y \in Line, x.at \notin Enders, y.at \notin Enders,
             wire' = wire \o <<x, y>>
      PROVE  Told(m, wire', c)
  <2>1. wire' = Append(Append(wire, x), y)
    BY <1>7, TwoLines
  <2>2. Append(wire, x) \in Seq(Line) /\ Told(m, Append(wire, x), c)
    BY <1>2, <1>7
  <2> QED BY <1>2, <1>7, <2>1, <2>2
<1> QED BY <1>3, <1>4, <1>5, <1>6, <1>7, Zenon DEF Peace

(* The words of this section.                                              *)
LEMMA PeacefulWords ==
  {"AT+CWMODE_CUR", "AT+CWQAP", "AT+CWSTARTSMART", "AT+CWSTOPSMART", "AT+CWJAP_CUR", "OK",
   "WIFI CONNECTED", "WIFI GOT IP", "WIFI DISCONNECT", "busy p...", "FAIL", "+CWJAP:",
   "CONNECT", "SEND OK", "SEND FAIL", "smartconfig type:", "ssid:", "password:",
   "smartconfig connected wifi"} \subseteq Peaceful
BY DEF Peaceful, Words, Orders, Answers, Enders

(* What the module does to its connection: it is told to open one, it has  *)
(* or opens none, or it has had one and says nothing of an end.            *)
Begins ==
  /\ cmds # << >> /\ Head(cmds).at = "AT+CIPSTART" /\ cmds' = Tail(cmds)
  /\ Say(<<"AT+CIPSTART">>) /\ esp'.sckt = esp.sckt

Stays == Owns /\ Peace /\ ~(esp'.sckt /\ esp'.busy = "AT+CIPSTART")

Apartness == ~(esp.sckt /\ esp.busy = "AT+CIPSTART")

(* ... by the commands that it reads, ...                                  *)
LEMMA ReadOwns ==
  ASSUME Typed, Module(esp), ReadCommand, Owns'
  PROVE  Begins \/ Stays
<1> DEFINE c == Head(cmds)
<1>1. /\ cmds \in Seq(Command) /\ cmds # << >> /\ cmds' = Tail(cmds) /\ esp.busy = "None"
      /\ Execute(c)
  BY Zenon DEF Typed, Serial, ReadCommand, c
<1>2. c \in Command
  BY <1>1
<1>3. "OK" \in Peaceful /\ "WIFI DISCONNECT" \in Peaceful
      /\ \A a \in {"AT+CWMODE_CUR", "AT+CWQAP", "AT+CWSTARTSMART", "AT+CWSTOPSMART",
                   "AT+CWJAP_CUR"} : a \in Peaceful
  BY PeacefulWords
<1>4. ASSUME esp'.busy # "AT+CIPSTART", esp'.sckt = esp.sckt, Peace PROVE Stays
  BY <1>4 DEF Owns, Stays
<1> HIDE DEF c
<1>5. CASE c.at \in {"AT+CWMODE_CUR", "AT+CWQAP", "AT+CWSTARTSMART", "AT+CWSTOPSMART"}
           /\ (Say(<<c.at, "OK">>) \/ Say(<<c.at, "OK", "WIFI DISCONNECT">>))
           /\ (esp' = esp \/ esp' = [esp EXCEPT !.conn = FALSE]
               \/ esp' = [esp EXCEPT !.smart = 1] \/ esp' = [esp EXCEPT !.smart = 0])
  <2>1. Peace
    BY <1>3, <1>5, Zenon DEF Peace
  <2>2. esp'.sckt = esp.sckt /\ esp'.busy = esp.busy
    BY <1>5 DEF Module
  <2> QED BY <1>1, <1>4, <2>1, <2>2
<1>6. CASE c.at = "AT+CIPCLOSE" /\ esp' = [esp EXCEPT !.sckt = FALSE, !.srv = "None"]
  <2>1. esp'.sckt = FALSE /\ esp'.busy = esp.busy
    BY <1>6 DEF Module
  <2> QED BY <1>1, <2>1 DEF Owns
<1>7. CASE /\ c.at = "AT+CIPSEND"
           /\ \/ /\ esp.sckt /\ wire' = wire \o <<c, AT("OK")>>
                 /\ esp' = [esp EXCEPT !.busy = "AT+CIPSEND"]
              \/ ~esp.sckt /\ esp' = esp
  <2>1. CASE ~esp.sckt
    BY <1>1, <1>7, <2>1 DEF Owns
  <2>2. CASE esp.sckt
    <3>1. c \in Line /\ c.at \notin Enders
      BY <1>2, <1>7 DEF Command, Line, Plain, Sending, Orders, Answers, Enders
    <3>2. AT("OK") \in Line /\ AT("OK").at \notin Enders
      BY DEF AT, Line, Plain, Answers, Enders
    <3>3. Peace
      BY <1>7, <2>2, <3>1, <3>2, Zenon DEF Peace
    <3>4. esp'.sckt = esp.sckt /\ esp'.busy = "AT+CIPSEND"
      BY <1>7, <2>2 DEF Module
    <3> QED BY <1>4, <3>3, <3>4
  <2> QED BY <2>1, <2>2
<1>8. CASE c.at = "AT+CWJAP_CUR" /\ Say(<<c.at>>) /\ esp' = [esp EXCEPT !.busy = c.at]
  <2>1. Peace
    BY <1>3, <1>8, Zenon DEF Peace
  <2>2. esp'.sckt = esp.sckt /\ esp'.busy = c.at
    BY <1>8 DEF Module
  <2> QED BY <1>4, <1>8, <2>1, <2>2
<1>9. CASE c.at = "AT+CIPSTART" /\ Say(<<c.at>>) /\ esp' = [esp EXCEPT !.busy = c.at]
  <2>1. esp'.sckt = esp.sckt
    BY <1>9 DEF Module
  <2> QED BY <1>1, <1>9, <2>1 DEF Begins, c
<1>10. CASE c.at = "AT+CWQAP"
            /\ Say(IF esp.conn THEN <<c.at, "OK", "WIFI DISCONNECT">> ELSE <<c.at, "OK">>)
            /\ esp' = [esp EXCEPT !.conn = FALSE]
  <2>1. Say(<<c.at, "OK">>) \/ Say(<<c.at, "OK", "WIFI DISCONNECT">>)
    BY <1>10, Zenon
  <2> QED BY <1>5, <1>10, <2>1
<1>11. \/ c.at = "AT+CWMODE_CUR" /\ Say(<<c.at, "OK">>) /\ esp' = esp
       \/ c.at = "AT+CWQAP"
          /\ Say(IF esp.conn THEN <<c.at, "OK", "WIFI DISCONNECT">> ELSE <<c.at, "OK">>)
          /\ esp' = [esp EXCEPT !.conn = FALSE]
       \/ c.at = "AT+CWSTARTSMART" /\ Say(<<c.at, "OK">>) /\ esp' = [esp EXCEPT !.smart = 1]
       \/ c.at = "AT+CWSTOPSMART" /\ Say(<<c.at, "OK">>) /\ esp' = [esp EXCEPT !.smart = 0]
       \/ c.at = "AT+CIPCLOSE" /\ esp' = [esp EXCEPT !.sckt = FALSE, !.srv = "None"]
       \/ /\ c.at = "AT+CIPSEND"
          /\ \/ /\ esp.sckt /\ wire' = wire \o <<c, AT("OK")>>
                /\ esp' = [esp EXCEPT !.busy = "AT+CIPSEND"]
             \/ ~esp.sckt /\ esp' = esp
       \/ /\ c.at \in {"AT+CWJAP_CUR", "AT+CIPSTART"}
          /\ Say(<<c.at>>) /\ esp' = [esp EXCEPT !.busy = c.at]
  BY <1>1, Zenon DEF Execute
<1> QED BY <1>5, <1>6, <1>7, <1>8, <1>9, <1>10, <1>11

(* ... by the long ones that end, ...                                      *)
LEMMA EndOwns ==
  ASSUME Module(esp), Apartness, Busy \/ Join \/ Open \/ Transmit, Owns'
  PROVE  Stays
<1>1. \A a \in {"OK", "WIFI CONNECTED", "WIFI GOT IP", "busy p...", "FAIL", "+CWJAP:", "CONNECT",
                "SEND OK", "SEND FAIL"} : a \in Peaceful
  BY PeacefulWords
<1>2. CASE Busy
  <2>1. esp' = esp /\ Say(<<"busy p...">>)
    BY <1>2, Zenon DEF Busy
  <2>2. Peace
    BY <1>1, <2>1, Zenon DEF Peace
  <2> QED BY <2>1, <2>2 DEF Stays, Owns, Apartness
<1>3. CASE Join
  <2>1. /\ \/ Say(<<"WIFI CONNECTED", "WIFI GOT IP", "OK">>)
              /\ esp' = [esp EXCEPT !.busy = "None", !.conn = TRUE]
           \/ Say(<<"+CWJAP:", "FAIL">>) /\ esp' = [esp EXCEPT !.busy = "None", !.conn = FALSE]
    BY <1>3, Zenon DEF Join
  <2>2. Peace
    BY <1>1, <2>1, Zenon DEF Peace
  <2>3. esp'.sckt = esp.sckt /\ esp'.busy = "None"
    BY <2>1 DEF Module
  <2> QED BY <2>2, <2>3 DEF Stays, Owns
<1>4. CASE Open
  <2>1. /\ esp.busy = "AT+CIPSTART"
        /\ \/ Say(<<"CONNECT", "OK">>)
              /\ esp' = [esp EXCEPT !.busy = "None", !.sckt = TRUE, !.srv = "Accepted"]
           \/ esp' = [esp EXCEPT !.busy = "None"]
    BY <1>4, Zenon DEF Open
  <2>2. ~esp.sckt
    BY <2>1 DEF Apartness
  <2>3. CASE esp' = [esp EXCEPT !.busy = "None"]
    <3>1. esp'.sckt = esp.sckt /\ esp'.busy = "None"
      BY <2>3 DEF Module
    <3> QED BY <2>2, <3>1 DEF Owns
  <2>4. CASE Say(<<"CONNECT", "OK">>)
             /\ esp' = [esp EXCEPT !.busy = "None", !.sckt = TRUE, !.srv = "Accepted"]
    <3>1. esp'.busy = "None"
      BY <2>4 DEF Module
    <3>2. Peace
      BY <1>1, <2>4, Zenon DEF Peace
    <3> QED BY <2>1, <3>1, <3>2 DEF Stays, Owns
  <2> QED BY <2>1, <2>3, <2>4
<1>5. CASE Transmit
  <2> DEFINE srv == Served(esp.srv, Head(cmds).units)
  <2>1. \/ Say(<<"SEND OK">>) /\ esp' = [esp EXCEPT !.busy = "None", !.srv = srv]
        \/ Say(<<"SEND FAIL">>) /\ esp' = [esp EXCEPT !.busy = "None"]
    BY <1>5 DEF Transmit
  <2> HIDE DEF srv
  <2>2. Peace
    BY <1>1, <2>1, Zenon DEF Peace
  <2>3. esp'.sckt = esp.sckt /\ esp'.busy = "None"
    BY <2>1 DEF Module
  <2> QED BY <2>2, <2>3 DEF Stays, Owns
<1> QED BY <1>2, <1>3, <1>4, <1>5

(* ... and by what happens of itself.                                      *)
LEMMA OthersOwn ==
  ASSUME Module(esp), Apartness, Boot \/ SmartConfig \/ Unsolicited, Owns'
  PROVE  Stays
<1>1. \A a \in {"WIFI CONNECTED", "WIFI GOT IP", "WIFI DISCONNECT", "smartconfig type:",
                "ssid:", "password:", "smartconfig connected wifi"} : a \in Peaceful
  BY PeacefulWords
<1>2. ASSUME esp'.sckt = esp.sckt, esp'.busy = esp.busy, Peace PROVE Stays
  BY <1>2 DEF Stays, Owns, Apartness
<1>3. CASE Boot
  <2>1. esp.power = "Booting" /\ esp' = [esp EXCEPT !.power = "On"]
    BY <1>3, Zenon DEF Boot
  <2>2. ~esp.sckt /\ esp.busy = "None"
    BY <2>1 DEF Module
  <2>3. esp'.sckt = esp.sckt /\ esp'.busy = esp.busy
    BY <2>1 DEF Module
  <2> QED BY <2>2, <2>3 DEF Owns
<1>4. CASE SmartConfig
  <2>1. \/ Say(<<"smartconfig type:", "ssid:", "password:">>)
           /\ esp' = [esp EXCEPT !.smart = 2]
        \/ Say(<<"WIFI CONNECTED", "WIFI GOT IP", "smartconfig connected wifi">>)
           /\ esp' = [esp EXCEPT !.smart = 0, !.conn = TRUE]
        \/ Say(<<"WIFI DISCONNECT">>) /\ esp' = [esp EXCEPT !.smart = 0]
    BY <1>4, Zenon DEF SmartConfig
  <2>2. Peace
    BY <1>1, <2>1, Zenon DEF Peace
  <2>3. esp'.sckt = esp.sckt /\ esp'.busy = esp.busy
    BY <2>1 DEF Module
  <2> QED BY <1>2, <2>2, <2>3
<1>5. CASE ServerAnswers \/ ServerSends
  <2>1. \A x \in {"101", "text", "close", "404", "PAIRING!", "WSCLOSE!", "malformed"} :
          x \in Payloads
    BY DEF Payloads
  <2>2. \E data \in Payloads : SayIPD(data)
    BY <1>5, <2>1 DEF ServerAnswers, ServerSends
  <2>3. esp' = esp \/ \E v : esp' = [esp EXCEPT !.srv = v]
    BY <1>5, Zenon DEF ServerAnswers, ServerSends
  <2>4. esp'.sckt = esp.sckt /\ esp'.busy = esp.busy
    BY <2>3 DEF Module
  <2> QED BY <1>2, <2>2, <2>4, Zenon DEF Peace
<1>6. CASE ServerCloses
  <2>1. esp.sckt /\ esp' = [esp EXCEPT !.sckt = FALSE, !.srv = "None"]
    BY <1>6, Zenon DEF ServerCloses
  <2>2. esp'.sckt = FALSE /\ esp'.busy = esp.busy
    BY <2>1 DEF Module
  <2> QED BY <2>1, <2>2 DEF Owns, Apartness
<1>7. CASE AccessPointLost
  <2>1. esp.busy # "AT+CIPSTART"
        /\ esp' = [esp EXCEPT !.conn = FALSE, !.sckt = FALSE, !.srv = "None"]
    BY <1>7, Zenon DEF AccessPointLost
  <2>2. esp'.sckt = FALSE /\ esp'.busy = esp.busy
    BY <2>1 DEF Module
  <2> QED BY <2>1, <2>2 DEF Owns
<1> QED BY <1>3, <1>4, <1>5, <1>6, <1>7 DEF Unsolicited

(* Taken together.                                                         *)
LEMMA ModuleOwns ==
  ASSUME Typed, Module(esp), Apartness, NEW caught, EspNext(caught), Owns'
  PROVE  (ReadCommand /\ Begins) \/ Stays
BY ReadOwns, EndOwns, OthersOwn, Zenon DEF EspNext, Answering

-----------------------------------------------------------------------------
(* One connection, and the firmware knows or will hear of it.              *)
Single ==
  /\ Once /\ (Owns => ~HasOpen(cmds)) /\ Apartness
  /\ Pledge

(* That is the property of the run, and more.                              *)
LEMMA SingleConnection == Single => OneConnection
BY DEF Single, OneConnection, Once, Owns, HasOpen, Apartness

(* Where nothing changes but what is not told here, ...                    *)
LEMMA SingleStays ==
  ASSUME Single, Owns' => Owns, esp'.sckt /\ esp'.busy = "AT+CIPSTART" => ~Apartness,
         Once', HasOpen(cmds') => HasOpen(cmds),
         Told(mail, wire, Now) => Told(mail', wire', Now')
  PROVE  Single'
BY DEF Single, Pledge, Apartness

(* ... a message is worked off, ...                                        *)
LEMMA SingleByMessage ==
  ASSUME IInv, IInv', Single, HciMessage
  PROVE  Single'
<1>1. /\ mail # << >> /\ Head(mail) \in Message /\ mail \in Seq(Message)
      /\ ByLine(Head(mail)) \/ ByState(Head(mail)) \/ ByOther(Head(mail))
      /\ cmds' = cmds \/ \E c : cmds' = Append(cmds, c) /\ c.at # "AT+CIPSTART"
  BY MessageEffect
<1>2. cmds \in Seq(Command) /\ Typed /\ Typed' /\ wire' = wire /\ esp' = esp
  BY Zenon DEF IInv, Typed, Serial, HciMessage
<1>3. (HasOpen(cmds') => HasOpen(cmds)) /\ Once'
  BY <1>1, <1>2, OpensNoMore DEF Single
<1>4. ASSUME Told(mail, wire, Now) PROVE Told(mail', wire, Now')
  <2>1. CASE ByLine(Head(mail))
    <3>1. Heard(Now, Head(mail), Now')
      BY <1>2, <2>1, LineTakes, Zenon DEF ByLine, Heard
    <3>2. Told(Tail(mail), wire, Now') /\ Tail(mail) \in Seq(Message)
      BY <1>1, <1>4, <3>1, ToldHeard
    <3>3. ASSUME NEW m \in Seq(Message), Told(m, wire, Now'), NEW x \in Message,
                 x.head # "ATCmd"
          PROVE  Append(m, x) \in Seq(Message) /\ Told(Append(m, x), wire, Now')
      BY <3>3, ToldPosts
    <3>4. \/ mail' = Tail(mail)
          \/ \E x \in Message : x.head # "ATCmd" /\ mail' = Append(Tail(mail), x)
          \/ \E x, y \in Message : /\ x.head # "ATCmd" /\ y.head # "ATCmd"
                                  /\ mail' = Append(Append(Tail(mail), x), y)
      BY <1>1, <1>2, <2>1, LineMail
    <3> QED BY <3>2, <3>3, <3>4
  <2>2. CASE ByState(Head(mail)) \/ ByOther(Head(mail))
    <3>1. mail' = Tail(mail) /\ Now' = Now
      BY <2>2 DEF ByState, ByOther
    <3>2. Heard(Now, Head(mail), Now)
      BY <2>2 DEF Heard, ByState, ByOther
    <3> QED BY <1>1, <1>4, <3>1, <3>2, ToldHeard
  <2> QED BY <1>1, <2>1, <2>2
<1>5. (Owns' => Owns) /\ (esp'.sckt /\ esp'.busy = "AT+CIPSTART" => ~Apartness)
  BY <1>2 DEF Owns, Apartness
<1> QED BY <1>2, <1>3, <1>4, <1>5, SingleStays

(* ... a command is given: AT+CIPSTART only where the module has nothing   *)
(* and opens nothing, ...                                                  *)
LEMMA SingleByFlag ==
  ASSUME IInv, Chains, Module(esp), OpeningLaw, Single, HciEvent
  PROVE  Single'
<1>1. /\ Typed /\ hci \in HciType /\ hci.events # {} /\ cmds \in Seq(Command)
      /\ HciProcessEvent(HciFlag)
      /\ mail = << >> /\ mail' = mail /\ wire' = wire /\ UNCHANGED atVars
  BY Zenon DEF IInv, Typed, Firmware, Serial, HciEvent
<1>2. Now' = Now
  BY <1>1 DEF atVars, Now
<1>3. /\ \/ cmds' = cmds
         \/ \E c : cmds' = Append(cmds, c) /\ c.at # "AT+CIPSTART"
         \/ OpensSocket
      /\ esp' = esp \/ esp' = PoweredUp
  BY <1>1, HciFlagIsSet, FlagEffect, Zenon
<1>4. esp'.busy = esp.busy /\ esp'.sckt = esp.sckt
  <2>1. CASE esp' = esp
    BY <2>1
  <2>2. CASE esp' = PoweredUp
    <3> DEFINE p == PoweredUp
    <3>1. p.busy = esp.busy /\ p.sckt = esp.sckt
      BY ModulePowered
    <3> HIDE DEF p
    <3>2. esp' = p
      BY <2>2 DEF p
    <3> QED BY <3>1, <3>2
  <2> QED BY <1>3, <2>1, <2>2
<1>5. (Owns' <=> Owns) /\ (esp'.sckt /\ esp'.busy = "AT+CIPSTART" => ~Apartness)
  BY <1>4 DEF Owns, Apartness
<1>6. Told(mail, wire, Now) => Told(mail', wire', Now')
  BY <1>1, <1>2
<1>7. CASE cmds' = cmds \/ \E c : cmds' = Append(cmds, c) /\ c.at # "AT+CIPSTART"
  <2>1. (HasOpen(cmds') => HasOpen(cmds)) /\ Once'
    BY <1>1, <1>7, OpensNoMore DEF Single
  <2> QED BY <1>5, <1>6, <2>1, SingleStays
<1>8. CASE OpensSocket
  <2>1. Able /\ JoinedLike(hci.curState)
    BY <1>8, StateParts DEF OpensSocket, Able, JoinedLike, NoSocket
  <2>2. ~OnWay /\ Once'
    BY <2>1, OpeningByFlag, <1>1 DEF OpeningLaw
  <2>3. Shut(Now)
    BY <1>1, <2>1, JoinedShut
  <2>4. ~Told(mail, wire, Now)
    BY <1>1, <2>2, <2>3, ToldNothing DEF OnWay, Shut, Up
  <2>5. ~Owns
    BY <2>4 DEF Single, Pledge
  <2> QED BY <1>5, <2>2, <2>5 DEF Single, Pledge, Apartness, Owns
<1> QED BY <1>3, <1>7, <1>8

(* ... a line comes in, ...                                                *)
LEMMA SingleByLine ==
  ASSUME Typed, Single, HalLine
  PROVE  Single'
<1> DEFINE x == [head |-> "ATCmd", line |-> Head(wire)]
<1>1. /\ wire # << >> /\ wire' = Tail(wire) /\ mail' = Append(mail, x) /\ esp' = esp /\ cmds' = cmds
      /\ UNCHANGED atVars
  BY Zenon DEF HalLine, x
<1>2. Now' = Now
  BY <1>1 DEF atVars, Now
<1>3. wire \in Seq(Line) /\ mail \in Seq(Message)
  BY Zenon DEF Typed, Serial, Firmware
<1>4. x \in Message /\ x.head = "ATCmd" /\ x.line = Head(wire)
  BY <1>1, <1>3 DEF Message
<1> HIDE DEF x
<1>5. Told(mail, wire, Now) => Told(mail', wire', Now')
  BY <1>1, <1>2, <1>3, <1>4, ToldComes
<1>6. /\ Owns' => Owns
      /\ esp'.sckt /\ esp'.busy = "AT+CIPSTART" => ~Apartness
      /\ Once' /\ (HasOpen(cmds') => HasOpen(cmds))
  BY <1>1 DEF Owns, Apartness, Single, Once
<1> QED BY <1>5, <1>6, SingleStays

(* ... or the module does something.                                       *)
LEMMA SingleByModule ==
  ASSUME Typed, Module(esp), Single, Outside
  PROVE  Single'
<1> DEFINE caught == Idle /\ wire = << >>
<1>1. EspNext(caught) /\ mail' = mail /\ UNCHANGED atVars
  BY Zenon DEF Outside
<1> HIDE DEF caught
<1>2. Now' = Now
  BY <1>1 DEF atVars, Now
<1>3. Once /\ Apartness /\ (Owns => ~HasOpen(cmds)) /\ Pledge
  BY DEF Single
<1>4. cmds \in Seq(Command) /\ wire \in Seq(Line)
  BY Zenon DEF Typed, Serial
<1>5. Once'
  BY <1>1, <1>3, ModuleOpens
<1>6. HasOpen(cmds') => HasOpen(cmds)
  <2>1. cmds' = cmds \/ (cmds # << >> /\ cmds' = Tail(cmds))
    BY <1>1, ModuleSays, Zenon DEF ReadCommand
  <2> QED BY <1>4, <2>1, HeadOpens
<1>7. CASE ~Owns'
  <2>1. Apartness'
    BY <1>7 DEF Apartness, Owns
  <2> QED BY <1>5, <1>7, <2>1 DEF Single, Pledge
<1>8. CASE Begins
  <2>1. HasOpen(cmds) /\ ~HasOpen(Tail(cmds)) /\ ~Owns
    BY <1>3, <1>4, <1>8, HeadOpens DEF Begins
  <2>2. ~esp.sckt /\ Apartness'
    BY <1>8, <2>1 DEF Owns, Begins, Apartness
  <2>3. wire' = Append(wire, AT("AT+CIPSTART")) /\ AT("AT+CIPSTART") \in Line
        /\ AT("AT+CIPSTART").at = "AT+CIPSTART"
    <3>1. "AT+CIPSTART" \in Words
      BY DEF Words, Orders
    <3> QED BY <1>4, <1>8, <3>1, SayLines, WordsAreLines, Zenon DEF Begins, Say
  <2>4. Told(mail, wire', Now)
    BY <1>4, <2>3, ToldMore
  <2> QED BY <1>1, <1>2, <1>5, <1>8, <2>1, <2>2, <2>4 DEF Single, Pledge, Begins
<1>9. CASE Stays
  <2>1. Told(mail, wire', Now)
    BY <1>3, <1>4, <1>9, PeaceTold DEF Stays, Pledge
  <2>2. Apartness' /\ ~HasOpen(cmds')
    BY <1>3, <1>6, <1>9 DEF Stays, Apartness
  <2> QED BY <1>1, <1>2, <1>5, <2>1, <2>2 DEF Single, Pledge
<1> QED BY <1>1, <1>3, <1>7, <1>8, <1>9, ModuleOwns

(* Every step.                                                             *)
LEMMA SingleStep == Dialogue /\ Single /\ [Next]_vars => Single'
<1> SUFFICES ASSUME Dialogue, Single, [Next]_vars PROVE Single'
  OBVIOUS
<1>1. IInv /\ Typed /\ Module(esp) /\ Chains /\ OpeningLaw
  BY Zenon DEF Dialogue, IInv
<1>2. IInv'
  BY DialogueStep, Zenon DEF Dialogue
<1>3. CASE Aside \/ AppEvent \/ AppMessage
  <2>1. esp' = esp /\ cmds' = cmds /\ wire' = wire /\ mail' = mail /\ atVars' = atVars
    <3>1. Aside => esp' = esp /\ cmds' = cmds /\ wire' = wire /\ mail' = mail /\ atVars' = atVars
      BY <1>1, AsideRests
    <3>2. AppEvent \/ AppMessage
            => esp' = esp /\ cmds' = cmds /\ wire' = wire /\ mail' = mail /\ atVars' = atVars
      BY Zenon DEF AppEvent, AppMessage, espVars
    <3> QED BY <1>3, <3>1, <3>2
  <2>2. Now' = Now
    BY <2>1 DEF atVars, Now
  <2> QED BY <2>1, <2>2 DEF Single, Once, Owns, HasOpen, Apartness, Pledge
<1>4. CASE Restart
  <2>1. esp' = EspOff /\ cmds' = << >>
    BY <1>4, Zenon DEF Restart
  <2> QED BY <2>1 DEF Single, Once, Owns, HasOpen, Apartness, Pledge, EspOff
<1> QED
  BY <1>1, <1>2, <1>3, <1>4, SingleByMessage, SingleByFlag, SingleByLine, SingleByModule, Zenon
     DEF Next, Tasks, Environment, Aside

(* It holds at the start.                                                  *)
LEMMA SingleInit == Init => Single
<1>1. Init => esp = EspOff /\ cmds = << >>
  BY Zenon DEF Init, EspInit
<1>2. esp = EspOff /\ cmds = << >> => Single
  BY DEF Single, Once, Owns, HasOpen, Apartness, Pledge, EspOff
<1> QED BY <1>1, <1>2

(* The firmware never opens a connection while the module has or opens one,*)
(* whatever crosses on the line between them: hci_wifi.c:1013.             *)
THEOREM ConnectionIsOne == Spec => []OneConnection
<1>1. Init => Dialogue /\ Single
  BY DialogueInit, SingleInit
<1>2. (Dialogue /\ Single) /\ [Next]_vars => (Dialogue /\ Single)'
  BY DialogueStep, SingleStep
<1>3. Dialogue /\ Single => OneConnection
  BY SingleConnection
<1> QED BY <1>1, <1>2, <1>3, PTL DEF Spec
=============================================================================
