----------------------------- MODULE MCAccounts -----------------------------
(***************************************************************************)
(* One Telegram customer whose name and language change, and a mailbox.    *)
(* The change form shows the language and not the name.                    *)
(***************************************************************************)
EXTENDS Accounts, TLC

CONSTANTS tom, mail, bot, name, lang

MCReservedEmail == tom :> bot

MCBlank == name :> "" @@ lang :> ""

\* Telegram sends a name, a language or neither.
MCProfiles == {MCBlank, name :> "Tom" @@ lang :> "", name :> "" @@ lang :> "en"}

MCSymmetry == Permutations(Requests) \cup Permutations(AccountIds)
=============================================================================
