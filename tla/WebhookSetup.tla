----------------------------- MODULE WebhookSetup -----------------------------
(***************************************************************************)
(* The PPP webhook on one router: webhook.py and the GUI's webhook pages.  *)
(* The router has a script that calls LQ-Sync with its token, and each PPP *)
(* profile calls that script from a line at the top of its on-up and       *)
(* on-down scripts.  The GUI installs, removes and checks them over the    *)
(* API, one API call at a time, on the profiles as it fetched them; the    *)
(* same commands may be pasted into the router's terminal.  Requests run   *)
(* in threads of their own, any call may fail, and the operator edits and  *)
(* adds profiles meanwhile.                                                *)
(*                                                                         *)
(* A profile script is a sequence of lines: "hook" (this app's), "own"     *)
(* (the operator's) or "blank".  The calls the routers then make are       *)
(* DeviceSync's; the address they are made at is "set" or "none".          *)
(***************************************************************************)
EXTENDS Naturals, SequencesExt, FiniteSets

CONSTANTS
  Profiles,  \* PPP profiles the router may have
  Hooks,     \* the keys of PROFILE_HOOKS
  Requests,  \* request threads
  MaxTokens, \* bound: tokens ever generated
  MaxEdits   \* bound: edits by the operator

ASSUME SetupConstants == Hooks # {} /\ MaxTokens \in Nat /\ MaxEdits \in Nat

VARIABLES
  address,  \* is the address to call LQ-Sync at saved (config.json)
  token,    \* the router's token there, 0 before there is one
  script,   \* the token in /system script lqsync-webhook, 0 if there is none
  profile,  \* profile[p]: its scripts [Hooks -> Seq(Lines)], or NoProfile
  edits,    \* edits made so far
  op        \* op[r]: what request thread or paste r is doing

setupVars == <<address, token, script, profile, edits, op>>

Pastes == {"paste_install", "paste_uninstall"}
RequestKinds == Pastes \cup {"install", "uninstall", "check"}
Lines == {"hook", "own", "blank"}
NoProfile == [h \in Hooks |-> <<"absent">>]  \* in place of the scripts of a profile there is not
Existing == {p \in Profiles : profile[p] # NoProfile}

Idle == [kind |-> "none", step |-> "idle", token |-> 0, address |-> FALSE,
         seen |-> [p \in Profiles |-> NoProfile], todo |-> {},
         clean |-> TRUE, script |-> "missing", unhooked |-> {}]

----------------------------------------------------------------------------
\* Profile scripts

IsHooked(s) == "hook" \in ToSet(s)

\* The lines of s that are in S, in order: SelectSeq, which the prover cannot unfold.
Only(s, S) ==
  LET only[i \in 0..Len(s)] == IF i = 0 THEN <<>>
                               ELSE IF s[i] \in S THEN Append(only[i - 1], s[i])
                               ELSE only[i - 1]
  IN  only[Len(s)]

OwnLines(s) == Only(s, Lines \ {"hook"})
Blank(s) == ToSet(s) \subseteq {"blank"}

\* Without the blank lines a hook leaves at the top.
SkipBlank(s) ==
  SubSeq(s, 1 + Max({n \in 0..Len(s) : Blank(SubSeq(s, 1, n))}), Len(s))

WithoutHook_slip(s) == IF IsHooked(s) THEN Tail(OwnLines(s)) ELSE s
WithoutHook(s) == IF IsHooked(s) THEN SkipBlank(OwnLines(s)) ELSE s

\* The hook is the first line.
WithHook_slip(s) == <<"hook">> \o s
WithHook(s) ==
  LET rest == WithoutHook(s) IN
  <<"hook">> \o (IF Blank(rest) THEN <<>> ELSE rest)

\* What the terminal does to a script: only what it lacks is added.
PasteHook(s) == IF IsHooked(s) THEN s ELSE <<"hook">> \o s
PasteUnhook(s) == OwnLines(s)

----------------------------------------------------------------------------
\* Requests

\* Something changed that the request did not change itself.
Tainted(o) == IF o.step = "idle" THEN o ELSE [o EXCEPT !.clean = FALSE]
Disturbed == [x \in Requests |-> Tainted(op[x])]
Disturb(r) == [x \in Requests |-> IF x = r THEN op[x] ELSE Tainted(op[x])]

StartRequest(r, kind) ==
  /\ op[r].step = "idle"
  /\ kind \in {"install", "paste_install"} => address /\ token # 0
  /\ op' = [op EXCEPT ![r] = [Idle EXCEPT !.kind = kind, !.token = token, !.address = address,
       !.step = CASE kind = "check" -> "script"
                  [] kind \in {"install", "paste_install"} -> "put"
                  [] OTHER -> "fetch"]]
  /\ UNCHANGED <<address, token, script, profile, edits>>

\* scripts.set / scripts.add, or the paste's remove and add.
PutScript(r) ==
  /\ op[r].step = "put"
  /\ script' = op[r].token
  /\ op' = [(IF script' # script THEN Disturb(r) ELSE op) EXCEPT ![r].step = "fetch"]
  /\ UNCHANGED <<address, token, profile, edits>>

\* profiles.get() (the terminal lists the profiles only).
Fetch(r) ==
  /\ op[r].step = "fetch"
  /\ op' = [op EXCEPT ![r].step = "profiles", ![r].todo = Existing,
                      ![r].seen = IF op[r].kind \in Pastes THEN @ ELSE profile]
  /\ UNCHANGED <<address, token, script, profile, edits>>

\* One profile's new scripts: over the API from what was fetched, in the terminal from what there is.
Rewritten(r, p, h) ==
  LET fetched == op[r].seen[p][h]  now == profile[p][h] IN
  CASE op[r].kind = "install"         -> IF WithHook(fetched) # fetched THEN WithHook(fetched) ELSE now
    [] op[r].kind = "uninstall"       -> IF IsHooked(fetched) THEN WithoutHook(fetched) ELSE now
    [] op[r].kind = "paste_install"   -> PasteHook(now)
    [] op[r].kind = "paste_uninstall" -> PasteUnhook(now)

RewriteProfile(r) ==
  /\ op[r].step = "profiles"
  /\ \E p \in op[r].todo :
       LET new == [h \in Hooks |-> Rewritten(r, p, h)] IN
       /\ p \in Existing  \* the call fails for a profile that is gone
       /\ profile' = [profile EXCEPT ![p] = new]
       /\ op' = [(IF new = profile[p] THEN op ELSE Disturb(r)) EXCEPT ![r].todo = @ \ {p}, ![r].seen[p] = NoProfile]
  /\ UNCHANGED <<address, token, script, edits>>

\* The script goes last, when no profile calls it any more.
AfterProfiles(r) ==
  /\ op[r].step = "profiles" /\ op[r].todo = {}
  /\ IF op[r].kind \in {"uninstall", "paste_uninstall"}
     THEN script' = 0 ELSE UNCHANGED script
  /\ op' = [(IF script' # script THEN Disturb(r) ELSE op)
              EXCEPT ![r].step = IF op[r].kind \in Pastes THEN "done" ELSE "script"]
  /\ UNCHANGED <<address, token, profile, edits>>

\* status: the script, then the profiles.
ReadScript(r) ==
  /\ op[r].step = "script"
  /\ op' = [op EXCEPT ![r].step = "status",
       ![r].script = IF script = 0 THEN "missing"
                     ELSE IF op[r].address /\ script = op[r].token THEN "current" ELSE "outdated"]
  /\ UNCHANGED <<address, token, script, profile, edits>>

ReadProfiles(r) ==
  /\ op[r].step = "status"
  /\ op' = [op EXCEPT ![r].step = "done",
       ![r].unhooked = {p \in Existing : \E h \in Hooks : ~IsHooked(profile[p][h])}]
  /\ UNCHANGED <<address, token, script, profile, edits>>

\* The answer is sent, or a call failed.
Answer(r) ==
  /\ op[r].step # "idle"
  /\ op' = [op EXCEPT ![r] = Idle]
  /\ UNCHANGED <<address, token, script, profile, edits>>

----------------------------------------------------------------------------
\* Configuration and the operator

\* webhook_config
SaveAddress(on) ==
  /\ address' = on
  /\ op' = Disturbed
  /\ UNCHANGED <<token, script, profile, edits>>

\* webhook_token: the old one stops working.
NewToken ==
  /\ token < MaxTokens
  /\ token' = token + 1
  /\ op' = Disturbed
  /\ UNCHANGED <<address, script, profile, edits>>

Edit(p, scripts) ==
  /\ edits < MaxEdits
  /\ edits' = edits + 1
  /\ profile' = [profile EXCEPT ![p] = scripts]
  /\ op' = Disturbed
  /\ UNCHANGED <<address, token, script>>

AddProfile(p) == p \notin Existing /\ \E s \in {<<>>, <<"own">>} : Edit(p, [h \in Hooks |-> s])
RemoveProfile(p) == p \in Existing /\ Edit(p, NoProfile)

\* Also a line above the hook, or a hook twice.
EditScript(p, h) ==
  LET old == profile[p][h] IN
  /\ p \in Existing
  /\ \E s \in {<<>>, <<"blank", "own">>, Append(old, "own"), <<"own">> \o old, old \o old} :
       Edit(p, [profile[p] EXCEPT ![h] = s])

----------------------------------------------------------------------------
SetupNext ==
  \/ \E r \in Requests, kind \in RequestKinds : StartRequest(r, kind)
  \/ \E r \in Requests :
       \/ PutScript(r) \/ Fetch(r) \/ RewriteProfile(r) \/ AfterProfiles(r)
       \/ ReadScript(r) \/ ReadProfiles(r) \/ Answer(r)
  \/ \E on \in BOOLEAN : SaveAddress(on)
  \/ NewToken
  \/ \E p \in Profiles : AddProfile(p) \/ RemoveProfile(p) \/ \E h \in Hooks : EditScript(p, h)

SetupInit ==
  /\ address = FALSE /\ token = 0 /\ script = 0 /\ edits = 0
  /\ profile \in [Profiles -> {NoProfile, [h \in Hooks |-> <<"own">>]}]
  /\ op = [r \in Requests |-> Idle]

SetupSpec == SetupInit /\ [][SetupNext]_setupVars

----------------------------------------------------------------------------
Scripts == {NoProfile} \cup [Hooks -> Seq(Lines)]
RequestStates ==
  [kind : RequestKinds \cup {"none"},
   step : {"idle", "put", "fetch", "profiles", "script", "status", "done"},
   token : 0..MaxTokens, address : BOOLEAN, seen : [Profiles -> Scripts], todo : SUBSET Profiles,
   clean : BOOLEAN, script : {"missing", "current", "outdated"}, unhooked : SUBSET Profiles]

SetupTypeOK ==
  /\ address \in BOOLEAN /\ token \in 0..MaxTokens /\ edits \in 0..MaxEdits
  /\ script \in 0..MaxTokens
  /\ profile \in [Profiles -> Scripts]
  /\ op \in [Requests -> RequestStates]

\* A request that nothing disturbed and that did not fail leaves the router as
\* asked: after an install the script has the router's token and every profile
\* script calls it, over the API once and first thing, whatever was there (the
\* terminal leaves a script that calls it as it is: twice, or below a line of
\* the operator's); after a removal nothing of this app is left, however often
\* it was there; and what it reports is what there is.
LeavesWhatItSays ==
  \A r \in Requests : op[r].step = "done" /\ op[r].clean =>
    LET Calls(p, h) == Only(profile[p][h], {"hook"})
        Called == \A p \in Existing, h \in Hooks : Calls(p, h) # <<>>
        OnceFirst == \A p \in Existing, h \in Hooks : Calls(p, h) = <<"hook">> /\ Head(profile[p][h]) = "hook"
        Clear == \A p \in Existing, h \in Hooks : Calls(p, h) = <<>>
    IN /\ op[r].kind \in {"install", "paste_install"} => script = token /\ Called
       /\ op[r].kind = "install" => OnceFirst
       /\ op[r].kind \in {"uninstall", "paste_uninstall"} => script = 0 /\ Clear
       /\ op[r].kind \notin Pastes =>
            /\ (op[r].script = "current") => script = token
            /\ op[r].unhooked = {} <=> Called

\* Rewriting a profile's scripts keeps the operator's own lines, in order, also
\* when another request hooked or unhooked the profile since it was fetched.
\* Over the API it is the lines as fetched: an edit made since is overwritten.
OwnLinesKept ==
  [][\A r \in Requests, p \in Profiles, h \in Hooks :
       LET Own(s) == Only(s, {"own"}) IN
       (/\ op[r].step = "profiles" /\ op'[r].step = "profiles"
        /\ p \in op[r].todo \ op'[r].todo
        /\ op[r].kind \notin Pastes => Own(op[r].seen[p][h]) = Own(profile[p][h]))
       => Own(profile'[p][h]) = Own(profile[p][h])]_setupVars
=============================================================================
