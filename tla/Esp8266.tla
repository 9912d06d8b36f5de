------------------------------ MODULE Esp8266 -------------------------------
(***************************************************************************)
(* The outside world: the ESP8266 module on UART1 running its AT firmware, *)
(* the access point, the phone that runs SmartConfig and the server.  None *)
(* of it is in the repository; it is modelled from the dialogues recorded  *)
(* in src/documents/log-*.txt and from the lines hci_wifiatcop.c expects.  *)
(*                                                                         *)
(* Commands reach the module through cmds, its lines come back on wire,    *)
(* both in order.  Everything that disturbs the connection uses up budget, *)
(* so that only finitely much goes wrong.  With Orderly the module speaks  *)
(* in turn: it waits until the firmware has worked off what it said        *)
(* (Caught), and starts nothing of its own while a command is under way.   *)
(***************************************************************************)
EXTENDS Naturals, Sequences

CONSTANTS
  Orderly,      \* the module speaks in turn
  Budget        \* how many things go wrong

ASSUME EspAssumption ==
  Orderly \in BOOLEAN /\ Budget \in Nat

VARIABLES esp, cmds, wire, budget

espVars == <<esp, cmds, wire, budget>>

(* conn and sckt are the module's own view; busy is the command it works   *)
(* on; smart counts the stages of SmartConfig; srv is the server's view.   *)
EspOff == [power |-> "Off", conn |-> FALSE, sckt |-> FALSE, busy |-> "None",
           smart |-> 0, srv |-> "None"]

EspInit ==
  /\ esp = EspOff
  /\ cmds = << >>
  /\ wire = << >>
  /\ budget = Budget

AT(line) == [at |-> line]
IPD(data) == [at |-> "+IPD", data |-> data]
Say(lines) == wire' = wire \o [i \in 1 .. Len(lines) |-> AT(lines[i])]
SayIPD(data) == wire' = Append(wire, IPD(data))

(* P40 high: the module gets power (HalATCmdSIOEnable). *)
PoweredUp == [esp EXCEPT !.power = IF @ = "Off" THEN "Booting" ELSE @]

Spend == budget > 0 /\ budget' = budget - 1
Free == UNCHANGED budget

(* It has no access point stored that it would join by itself.             *)
Boot ==
  /\ esp.power = "Booting"
  /\ esp' = [esp EXCEPT !.power = "On"]
  /\ Say(<<"ready", "WIFI DISCONNECT">>)
  /\ Free /\ UNCHANGED cmds

-----------------------------------------------------------------------------
(* Commands: the module echoes what it reads, then answers.                *)

(* Short commands: the state afterwards and the answer. *)
Execute(c) ==
  \/ /\ c.at = "AT+CWMODE_CUR"
     /\ Say(<<c.at, "OK">>)
     /\ UNCHANGED esp
  \/ /\ c.at = "AT+CWQAP"
     /\ Say(IF esp.conn THEN <<c.at, "OK", "WIFI DISCONNECT">> ELSE <<c.at, "OK">>)
     /\ esp' = [esp EXCEPT !.conn = FALSE]
  \/ /\ c.at = "AT+CWSTARTSMART"
     /\ Say(<<c.at, "OK">>)
     /\ esp' = [esp EXCEPT !.smart = 1]
  \/ /\ c.at = "AT+CWSTOPSMART"
     /\ Say(<<c.at, "OK">>)
     /\ esp' = [esp EXCEPT !.smart = 0]
  \/ /\ c.at = "AT+CIPCLOSE"
     /\ Say(IF esp.sckt THEN <<c.at, "CLOSED", "OK">> ELSE <<c.at, "ERROR">>)
     /\ esp' = [esp EXCEPT !.sckt = FALSE, !.srv = "None"]
  \/ /\ c.at = "AT+CIPSEND"
     /\ IF esp.sckt
          THEN /\ wire' = wire \o <<c, AT("OK")>>
               /\ esp' = [esp EXCEPT !.busy = "AT+CIPSEND"]
          ELSE /\ wire' = wire \o <<c, AT("ERROR")>>
               /\ UNCHANGED esp
  \/ /\ c.at \in {"AT+CWJAP_CUR", "AT+CIPSTART"}
     /\ Say(<<c.at>>)
     /\ esp' = [esp EXCEPT !.busy = c.at]

ReadCommand ==
  /\ esp.power = "On"
  /\ cmds # << >>
  /\ esp.busy = "None"
  /\ Execute(Head(cmds))
  /\ cmds' = Tail(cmds)
  /\ Free

(* A command that arrives while another one is worked on is dropped. *)
Busy ==
  /\ esp.power = "On"
  /\ cmds # << >>
  /\ esp.busy \in {"AT+CWJAP_CUR", "AT+CIPSTART"}
  /\ Say(<<"busy p...">>)
  /\ cmds' = Tail(cmds)
  /\ Free /\ UNCHANGED esp

(* The end of a long command. *)
Join ==
  /\ esp.busy = "AT+CWJAP_CUR"
  /\ \/ /\ Say(<<"WIFI CONNECTED", "WIFI GOT IP", "OK">>)
        /\ esp' = [esp EXCEPT !.busy = "None", !.conn = TRUE]
        /\ Free
     \/ /\ Say(<<"+CWJAP:", "FAIL">>)
        /\ esp' = [esp EXCEPT !.busy = "None", !.conn = FALSE]
        /\ Spend
  /\ UNCHANGED cmds

Open ==
  /\ esp.busy = "AT+CIPSTART"
  /\ \/ /\ esp.conn
        /\ Say(<<"CONNECT", "OK">>)
        /\ esp' = [esp EXCEPT !.busy = "None", !.sckt = TRUE, !.srv = "Accepted"]
        /\ Free
     \/ /\ \/ Say(<<"ERROR", "CLOSED">>)
           \/ Say(<<"DNS Fail", "ERROR">>)
        /\ esp' = [esp EXCEPT !.busy = "None"]
        /\ Spend
     \/ /\ ~esp.conn
        /\ Say(<<"no ip", "ERROR">>)
        /\ esp' = [esp EXCEPT !.busy = "None"]
        /\ Free
  /\ UNCHANGED cmds

(* What the server makes of the units of one CIPSEND. *)
Served(srv, units) ==
  CASE srv = "Accepted" /\ units[1] = "GET" -> "Asked"
    [] srv \in {"Up", "Due"} ->
         IF \E i \in 1 .. Len(units) : units[i] = "close" THEN "CloseDue" ELSE "Due"
    [] OTHER -> srv

Transmit ==
  /\ esp.busy = "AT+CIPSEND"
  /\ cmds # << >> /\ Head(cmds).at = "data"
  /\ IF esp.sckt
       THEN /\ Say(<<"SEND OK">>)
            /\ esp' = [esp EXCEPT !.busy = "None",
                                  !.srv = Served(@, Head(cmds).units)]
       ELSE /\ Say(<<"SEND FAIL">>)
            /\ esp' = [esp EXCEPT !.busy = "None"]
  /\ cmds' = Tail(cmds)
  /\ Free

Answering == ReadCommand \/ Busy \/ Join \/ Open \/ Transmit

-----------------------------------------------------------------------------
(* What happens by itself.                                                 *)

(* The phone brings SmartConfig forward; the module may fail to join.      *)
SmartConfig ==
  /\ esp.smart > 0
  /\ \/ /\ esp.smart = 1
        /\ Say(<<"smartconfig type:", "ssid:", "password:">>)
        /\ esp' = [esp EXCEPT !.smart = 2]
        /\ Free
     \/ /\ esp.smart = 2
        /\ Say(<<"WIFI CONNECTED", "WIFI GOT IP", "smartconfig connected wifi">>)
        /\ esp' = [esp EXCEPT !.smart = 0, !.conn = TRUE]
        /\ Free
     \/ /\ esp.smart = 2
        /\ Say(<<"WIFI DISCONNECT">>)
        /\ esp' = [esp EXCEPT !.smart = 0]
        /\ Spend
  /\ UNCHANGED cmds

(* The server answers a request, or sends something of its own. *)
ServerAnswers ==
  /\ \/ /\ esp.srv = "Asked" /\ SayIPD("101")
        /\ esp' = [esp EXCEPT !.srv = "Up"]
     \/ /\ esp.srv = "Due" /\ SayIPD("text")
        /\ esp' = [esp EXCEPT !.srv = "Up"]
     \/ /\ esp.srv = "CloseDue" /\ SayIPD("close")
        /\ esp' = [esp EXCEPT !.srv = "Leaving"]
  /\ Free /\ UNCHANGED cmds

ServerSends ==
  /\ \/ /\ esp.srv = "Asked" /\ SayIPD("404")
        /\ esp' = [esp EXCEPT !.srv = "Leaving"]
     \/ /\ esp.srv \in {"Up", "Due"}
        /\ \E data \in {"PAIRING!", "WSCLOSE!", "malformed"} : SayIPD(data)
        /\ UNCHANGED esp
     \/ /\ esp.srv \in {"Up", "Due"} /\ SayIPD("close")
        /\ esp' = [esp EXCEPT !.srv = "Leaving"]
  /\ Spend /\ UNCHANGED cmds

(* The connection goes away: the server leaves, or the access point. *)
ServerCloses ==
  /\ esp.sckt
  /\ Say(<<"CLOSED">>)
  /\ esp' = [esp EXCEPT !.sckt = FALSE, !.srv = "None"]
  /\ IF esp.srv = "Leaving" THEN Free ELSE Spend
  /\ UNCHANGED cmds

AccessPointLost ==
  /\ esp.conn /\ esp.smart = 0 /\ esp.busy # "AT+CIPSTART"
  /\ Say(IF esp.sckt THEN <<"CLOSED", "WIFI DISCONNECT">> ELSE <<"WIFI DISCONNECT">>)
  /\ esp' = [esp EXCEPT !.conn = FALSE, !.sckt = FALSE, !.srv = "None"]
  /\ Spend /\ UNCHANGED cmds

Unsolicited == ServerAnswers \/ ServerSends \/ ServerCloses \/ AccessPointLost

EspNext(caught) ==
  \/ (Boot \/ Answering) /\ (Orderly => caught)
  \/ SmartConfig /\ caught /\ cmds = << >>
  \/ /\ Unsolicited
     /\ esp.power = "On"
     /\ Orderly => caught /\ cmds = << >> /\ esp.busy = "None"
=============================================================================
