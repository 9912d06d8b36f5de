----------------------------- MODULE MCStorage ------------------------------
(***************************************************************************)
(* What is kept in the flash, for TLC: the pages of the network and the    *)
(* server (Credentials) and the items of osal_snv (Snv).  The firmware has *)
(* them in different pages, so one of the two moves in a behaviour.        *)
(***************************************************************************)
EXTENDS Snv, TLC

CONSTANTS Ssids, Passwds, Urls, Default, MaxName, MaxServer, WordChars, NUL, FF, Port,
          MaxPairings, MaxUpdates, MaxCuts

VARIABLES part,
          data, owed, pSSID, pPASSWD, mode, opening, used, told, urls, saved, cuts

Network == INSTANCE Credentials WITH flash <- data, job <- owed

ASSUME StorageAssumption == Network!CredentialsAssumption

networkVars == <<data, owed, pSSID, pPASSWD, mode, opening, used, told, urls, saved, cuts>>
itemVars == vars
storageVars == <<part, networkVars, itemVars>>

StorageInit == part \in {"network", "items"} /\ Network!Init /\ Init

StorageNext ==
    \/ part = "network" /\ Network!Next /\ UNCHANGED <<part, itemVars>>
    \/ part = "items" /\ Next /\ UNCHANGED <<part, networkVars>>

StorageSpec == StorageInit /\ [][StorageNext]_storageVars

-----------------------------------------------------------------------------
\* Whenever the power fails (in the store: unless a cut erasure leaves two active pages,
\* see Cut in Snv): a network is never tried with a password that was told after
\* its name, what the last handler left stays, the server that is opened was told, and
\* what osal_snv_read finds in its page is what a restart would find.
StorageSound ==
    /\ part = "network" => /\ Network!TypeOK /\ Network!PasswordNotNewer
                          /\ Network!SavedStays /\ Network!ServerIsTold
    /\ part = "items" => /\ TypeOK /\ ChainHolds
                        /\ OnlyClearsBits /\ ReadsAreDurable

\* app_lock.c: a step on a page leaves the old text, the new one or nothing to be read.
OldNewOrNothing == Network!OldNewOrNothing
-----------------------------------------------------------------------------
(* Words of two characters, names of two words, addresses of four; a name  *)
(* that fills its page, a password and an address that are too long, an    *)
(* address without a port, and addresses longer than a name.               *)
SomeSsids == {<<"a">>, <<"b", "b", "b", "b">>}
SomePasswds == {<<"p", "p", "p">>, <<"r", "r", "r", "r", "r">>}
SomeUrls == {<<"u", "v", "v", "v", "v", "v">>, <<"x">>,
             <<"u", "w", "w", "w", "w", "w", "w", "w">>}
TheDefault == <<"u", "d", "d", "d", "d">>

(* Two items, of one and of two words, in pages that hold both and one     *)
(* more of the longer: a third write compacts.                             *)
CONSTANTS u, v
Lengths == (1 :> 1) @@ (2 :> 2)
TwoValues == {u, v}
ValuesAlike == Permutations(TwoValues)
=============================================================================
