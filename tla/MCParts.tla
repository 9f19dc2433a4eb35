------------------------------- MODULE MCParts -------------------------------
(***************************************************************************)
(* RateResolver, AppUpdate, WebhookSetup and FileWrite on small instances. *)
(* They share no state: a behaviour is one of them, as `part' says, and    *)
(* the others stay in one of their initial states.                         *)
(***************************************************************************)
EXTENDS RateResolver, AppUpdate, WebhookSetup, FileWrite, TLC

VARIABLE part

ASSUME UpdatesAreKept == UpdateConstants

allVars == <<part, vars, updateVars, setupVars, fileVars>>

----------------------------------------------------------------------------
\* RateResolver: texts with no rate, with rates in several units and with none usable.
Rate(n, u) == [n |-> n, unit |-> u]
MCTexts == {
  <<>>,
  <<Other, <<Rate(5000, "m"), Rate(5000, "m")>>>>,
  <<<<Rate(400, "k"), Rate(100, "m")>>, <<Rate(100000, "k"), Rate(0, "")>>>>,
  <<<<Rate(500, "g"), Rate(500, "g")>>>>,
  <<<<Rate(50000, "k"), Rate(50000, "k")>>, Other>>}
MCMin == <<1, 2>>
MCMax == <<23, 20>>

\* AppUpdate: files that come and go.
MCFiles == ("v1" :> {"gui.py", "old.py"}) @@ ("v2" :> {"gui.py", "new.py"})
           @@ ("v3" :> {"gui.py", "old.py", "new.py"})

----------------------------------------------------------------------------
PartsInit ==
  /\ part \in {"rates", "update", "webhook", "file"}
  /\ Init /\ (part # "rates" => places = <<<<>>, <<>>, <<>>>> /\ default = 0)
  /\ UpdateInit
  /\ SetupInit /\ (part # "webhook" => \A p \in Profiles : profile[p] = NoProfile)
  /\ FileInit /\ (part # "file" => name = 1 /\ text[1] = "old")

PartsNext ==
  \/ part = "rates" /\ Next /\ UNCHANGED <<part, updateVars, setupVars, fileVars>>
  \/ part = "update" /\ UpdateNext /\ UNCHANGED <<part, vars, setupVars, fileVars>>
  \/ part = "webhook" /\ SetupNext /\ UNCHANGED <<part, vars, updateVars, fileVars>>
  \/ part = "file" /\ FileNext /\ UNCHANGED <<part, vars, updateVars, setupVars>>

PartsSpec == PartsInit /\ [][PartsNext]_allVars

----------------------------------------------------------------------------
\* The type invariants of all four.  The properties are stated where they belong.
PartsTypeOK == TypeOK /\ UpdateTypeOK /\ SetupTypeOK /\ FileTypeOK
==============================================================================
