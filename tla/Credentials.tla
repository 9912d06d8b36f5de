---------------------------- MODULE Credentials -----------------------------
(***************************************************************************)
(* What survives a loss of power: the name and the password of the network *)
(* and the address of the server, each in a page of the data flash         *)
(* (hal_flash.c), as the lock application (app_lock.c) writes and reads    *)
(* them.  A page is erased and then programmed word by word; the power may *)
(* fail between any two of these steps and within an erasure.              *)
(***************************************************************************)
EXTENDS Naturals, Sequences, FiniteSets, SequencesExt

CONSTANTS Ssids, Passwds, Urls,     \* texts: sequences of characters
          Default,                  \* TEST_SERVER
          MaxName,                  \* MAX_LENGTH_SSID, MAX_LENGTH_PASSWD: 32
          MaxServer,                \* MAX_LENGTH_SERVER: 64
          WordChars,                \* characters of a flash word: 4
          NUL, FF,                  \* 0x00, 0xFF
          Port,                     \* the part of an address that ends with its port
          MaxPairings, MaxUpdates, MaxCuts      \* bounds

CredentialsAssumption ==
    /\ WordChars \in Nat \ {0} /\ MaxName \in Nat /\ MaxServer \in Nat
    /\ MaxName % WordChars = 0 /\ MaxServer % WordChars = 0
    /\ Len(Default) < MaxServer /\ Default[1] = Port
    \* strings have no NUL in them, and the name of a network has 32 bytes at most
    /\ NUL # FF
    /\ \A text \in Ssids \cup Passwds : text \in Seq(Range(text)) /\ NUL \notin Range(text)
    /\ \A ssid \in Ssids : Len(ssid) <= MaxName

VARIABLES flash,            \* the characters of each page
          job,              \* the erasures and words that the running handler still owes
          pSSID, pPASSWD,   \* staged by the pairing; <<>> for NULL
          mode,             \* "idle", "pairing", "joining" or "joined"
          opening,          \* OpenWebSocket is in its loop
          used,             \* what the last StartWiFiConn and OpenWebSocket took
          told,             \* pairs that a pairing brought, in order
          urls,             \* addresses that the server gave
          saved,            \* what the last handler left in the pages of the network
          cuts              \* losses of power

vars == <<flash, job, pSSID, pPASSWD, mode, opening, used, told, urls, saved, cuts>>

Pages == {"ssid", "passwd", "server"}
Size(page) == IF page = "server" THEN MaxServer ELSE MaxName
Words(page) == 1 .. Size(page) \div WordChars

-----------------------------------------------------------------------------
(* The pages *)

\* HalFlashErase and HalFlashWrite, as steps: word 0 is the page
Erase(page) == <<[page |-> page, at |-> 0, text |-> << >>]>>

Program(page, text) == [w \in Words(page) |-> [page |-> page, at |-> w, text |-> text]]

WordOf(i) == (i - 1) \div WordChars + 1

\* pBuf is the text, filled up with zeros
Performed(chars, op) ==
    [i \in DOMAIN chars |->
        IF op.at = 0 THEN FF
        ELSE IF op.at # WordOf(i) THEN chars[i]
        ELSE IF i <= Len(op.text) THEN op.text[i] ELSE NUL]

\* What the power may leave of a step: of an erasure some words, of a word all or nothing
Torn(chars, op) ==
    IF op.at = 0
    THEN {[i \in DOMAIN chars |-> IF WordOf(i) \in gone THEN FF ELSE chars[i]]
            : gone \in SUBSET Words(op.page)}
    ELSE {chars, Performed(chars, op)}

\* Mutant: the page is programmed over what it holds
FlashWrite_NoErase(page, text) ==
    IF Len(text) <= Size(page) THEN Program(page, text) ELSE << >>

\* flashWriteSSID, flashWritePASSWD: a text that is too long leaves the page alone
FlashWrite(page, text) ==
    IF Len(text) <= Size(page) THEN Erase(page) \o Program(page, text) ELSE << >>

\* flashWriteServer: its end counts
FlashWriteServer(text) ==
    IF Len(text) + 1 <= MaxServer THEN Erase("server") \o Program("server", text) ELSE << >>

\* The characters of a buffer up to its end
Text(chars) ==
    SubSeq(chars, 1, Min({i - 1 : i \in {j \in DOMAIN chars : chars[j] = NUL}}
                            \cup {Len(chars)}))

\* flashReadSSID, flashReadPASSWD and flashReadServer look at MAX_LENGTH_PASSWD
\* characters, whatever the page holds.  A blank one among them makes the text empty.
FlashRead(page) ==
    LET text == Text(flash[page])
        scanned == SubSeq(text, 1, Min({MaxName, Len(text)}))
    IN IF Contains(scanned, FF) THEN << >> ELSE text

-----------------------------------------------------------------------------
Init ==
    /\ flash = [page \in Pages |-> [i \in 1 .. Size(page) |-> FF]]
    /\ job = << >>
    /\ pSSID = << >> /\ pPASSWD = << >>
    /\ mode = "idle" /\ opening = FALSE
    /\ used = [ssid |-> << >>, passwd |-> << >>, server |-> << >>]
    /\ told = << >> /\ urls = {}
    /\ saved = [ssid |-> << >>, passwd |-> << >>]
    /\ cuts = 0

Ready == job = << >> /\ ~opening

\* The handler goes on
Step ==
    /\ job # << >>
    /\ job' = Tail(job)
    /\ flash' = [flash EXCEPT ![Head(job).page] = Performed(@, Head(job))]
    /\ UNCHANGED <<pSSID, pPASSWD, mode, opening, used, told, urls, saved, cuts>>

\* HciWiFiPairingStart, which a long press, an open door or the server asks for
PairingStart ==
    /\ Ready
    /\ mode' = "pairing"
    /\ UNCHANGED <<flash, job, pSSID, pPASSWD, opening, used, told, urls, saved, cuts>>

\* The key held long: what is known of the network is erased
KeyLong ==
    /\ Ready
    /\ job' = Erase("ssid") \o Erase("passwd")
    /\ saved' = [ssid |-> << >>, passwd |-> << >>]
    /\ mode' = "pairing"
    /\ UNCHANGED <<flash, pSSID, pPASSWD, opening, used, told, urls, cuts>>

UpdateSSID(ssid) ==
    /\ Ready /\ mode = "pairing" /\ Len(told) < MaxPairings
    /\ pSSID' = ssid
    /\ UNCHANGED <<flash, job, pPASSWD, mode, opening, used, told, urls, saved, cuts>>

UpdatePASSWD(passwd) ==
    /\ Ready /\ mode = "pairing" /\ Len(told) < MaxPairings
    /\ pPASSWD' = passwd
    /\ UNCHANGED <<flash, job, pSSID, mode, opening, used, told, urls, saved, cuts>>

\* Mutant: the password is written before the name
PairingSuccess_PasswdFirst ==
    /\ Ready /\ mode = "pairing" /\ Len(told) < MaxPairings
    /\ job' = FlashWrite("passwd", pPASSWD) \o FlashWrite("ssid", pSSID)
    /\ told' = Append(told, <<pSSID, pPASSWD>>)
    /\ saved' = [ssid |-> pSSID,
                 passwd |-> IF Len(pPASSWD) <= MaxName THEN pPASSWD ELSE saved.passwd]
    /\ pSSID' = << >> /\ pPASSWD' = << >>
    /\ mode' = "idle"
    /\ UNCHANGED <<flash, opening, used, urls, cuts>>

PairingSuccess ==
    /\ Ready /\ mode = "pairing" /\ Len(told) < MaxPairings
    /\ job' = FlashWrite("ssid", pSSID) \o FlashWrite("passwd", pPASSWD)
    /\ told' = Append(told, <<pSSID, pPASSWD>>)
    /\ saved' = [ssid |-> pSSID,
                 passwd |-> IF Len(pPASSWD) <= MaxName THEN pPASSWD ELSE saved.passwd]
    /\ pSSID' = << >> /\ pPASSWD' = << >>
    /\ mode' = "idle"
    /\ UNCHANGED <<flash, opening, used, urls, cuts>>

PairingFailure ==
    /\ Ready /\ mode = "pairing"
    /\ pSSID' = << >> /\ pPASSWD' = << >>
    /\ mode' = "idle"
    /\ UNCHANGED <<flash, job, opening, used, told, urls, saved, cuts>>

\* A name that fills its buffer has no end there: more may follow
Overread(ssid) ==
    IF Len(ssid) = MaxName THEN {ssid, Append(ssid, FF)} ELSE {ssid}

StartWiFiConn ==
    /\ Ready /\ mode = "idle"
    /\ IF FlashRead("ssid") = << >>
       THEN mode' = "pairing" /\ UNCHANGED used
       ELSE /\ mode' = "joining"
            /\ \E ssid \in Overread(FlashRead("ssid")) :
                 used' = [used EXCEPT !.ssid = ssid, !.passwd = FlashRead("passwd")]
    /\ UNCHANGED <<flash, job, pSSID, pPASSWD, opening, told, urls, saved, cuts>>

WiFiConnected ==
    /\ Ready /\ mode = "joining" /\ mode' = "joined"
    /\ UNCHANGED <<flash, job, pSSID, pPASSWD, opening, used, told, urls, saved, cuts>>

WiFiDisconnected ==
    /\ Ready /\ mode \in {"joining", "joined"} /\ mode' = "idle"
    /\ UNCHANGED <<flash, job, pSSID, pPASSWD, opening, used, told, urls, saved, cuts>>

OpenWebSocket ==
    /\ Ready /\ mode = "joined"
    /\ opening' = TRUE
    /\ UNCHANGED <<flash, job, pSSID, pPASSWD, mode, used, told, urls, saved, cuts>>

\* Its loop: an address that is empty or has no port is replaced by the default
TryServer ==
    LET server == FlashRead("server") IN
    /\ opening /\ job = << >>
    /\ IF server = << >> \/ server[1] # Port
       THEN job' = FlashWriteServer(Default) /\ UNCHANGED <<used, opening>>
       ELSE job' = job /\ used' = [used EXCEPT !.server = server] /\ opening' = FALSE
    /\ UNCHANGED <<flash, pSSID, pPASSWD, mode, told, urls, saved, cuts>>

\* WSUPDATE! from the server
ServerUpdate(url) ==
    /\ Ready /\ mode = "joined" /\ Cardinality(urls) < MaxUpdates
    /\ job' = FlashWriteServer(url)
    /\ urls' = urls \cup {url}
    /\ UNCHANGED <<flash, pSSID, pPASSWD, mode, opening, used, told, saved, cuts>>

\* The power fails, perhaps in a step, and comes back: AppLock_Init
PowerOff ==
    /\ cuts < MaxCuts /\ cuts' = cuts + 1
    /\ IF job = << >> THEN UNCHANGED <<flash, saved>>
       ELSE /\ \E content \in Torn(flash[Head(job).page], Head(job)) :
                 flash' = [flash EXCEPT ![Head(job).page] = content]
            /\ saved' = IF opening \/ Head(job).page = "server" THEN saved
                        ELSE [ssid |-> FlashRead("ssid")', passwd |-> FlashRead("passwd")']
    /\ job' = << >> /\ pSSID' = << >> /\ pPASSWD' = << >>
    /\ mode' = "idle" /\ opening' = FALSE
    /\ UNCHANGED <<used, told, urls>>

Next ==
    \/ Step \/ PairingStart \/ KeyLong
    \/ \E ssid \in Ssids : UpdateSSID(ssid)
    \/ \E passwd \in Passwds : UpdatePASSWD(passwd)
    \/ PairingSuccess \/ PairingFailure
    \/ StartWiFiConn \/ WiFiConnected \/ WiFiDisconnected
    \/ OpenWebSocket \/ TryServer
    \/ \E url \in Urls : ServerUpdate(url)
    \/ PowerOff

Spec == Init /\ [][Next]_vars

-----------------------------------------------------------------------------
Texts(page) == CASE page = "ssid" -> Ssids [] page = "passwd" -> Passwds

\* The types; what is read back of a name or a password is one that was told, whole, or
\* nothing, whenever the power failed: never a mixture of two.
TypeOK ==
    /\ mode \in {"idle", "pairing", "joining", "joined"} /\ opening \in BOOLEAN
    /\ \A page \in {"ssid", "passwd"} : FlashRead(page) \in Texts(page) \cup {<< >>}

\* A step changes what would be read of a page to what the handler wants to write there,
\* or to nothing (flashWriteSSID, flashWritePASSWD: erase, then program).
OldNewOrNothing ==
    [][\A page \in {"ssid", "passwd"} :
         FlashRead(page)' # FlashRead(page) =>
            \/ FlashRead(page)' = << >>
            \/ job # << >> /\ FlashRead(page)' = saved[page]]_vars

\* Between handlers, the pages of the network hold what the last pairing or the long
\* press left; a loss of power then costs nothing.  A password that is too long leaves
\* the one before.
SavedStays ==
    job = << >> => [ssid |-> FlashRead("ssid"), passwd |-> FlashRead("passwd")] = saved

\* A network is never tried with a password that was told after its name: the name is
\* replaced first.
PasswordNotNewer ==
    used.ssid \in Ssids /\ used.passwd # << >> =>
        \E i \in DOMAIN told : \E j \in 1 .. i :
            told[i][1] = used.ssid /\ told[j][2] = used.passwd

\* The address that is opened is one that was given, or the default; behind the
\* characters that flashReadServer looks at, a loss of power may have blanked it.
ServerIsTold ==
    used.server # << >> =>
        \E url \in urls \cup {Default} :
            \/ used.server = url
            \/ cuts > 0 /\ Len(used.server) > MaxName
               /\ IsPrefix(SubSeq(used.server, 1, MaxName), url)
=============================================================================
