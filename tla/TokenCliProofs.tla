--------------------------- MODULE TokenCliProofs ---------------------------
(***************************************************************************)
(* Proofs about TokenCli, for any number of shells, logins and ticks: the  *)
(* two tokens in the credentials file are of one login whatever overlaps   *)
(* or dies, a token is live when it is used, and the files come to no harm *)
(* as long as no writers overlap and none dies while writing.              *)
(***************************************************************************)
EXTENDS TokenCli, TLAPS

\* The tokens a file or a shell holds are of one login.
Paired(c) == c \in Credentials /\ c.login = c.refresh

HoldingSteps == {"save", "flush", "print", "exchange"}
UsingSteps == {"print", "exchange"}

\* A shell that holds a checked or a new token spends the buffer tick by tick;
\* the steps of a login and of the commands that use a token are apart but for
\* the saving.
Sound(st) ==
    /\ st \in ShellStates
    /\ Paired(st.creds)
    /\ st.lag <= LagOf(st.command)
    /\ st.pc \notin HoldingSteps => st.lag = 0
    /\ st.pc \in {"login", "loadForLogin"} => st.command = "login"
    /\ st.pc \in {"load", "refresh"} \union UsingSteps => st.command # "login"
    /\ st.pc \in HoldingSteps /\ st.command # "login" => st.creds.left + st.lag > LagOf(st.command)

TokenInv == TypeOK /\ Paired(file) /\ \A s \in Shells : Sound(sh[s])

LEMMA Numbers ==
    /\ Lifetime \in Nat /\ Buffer \in Nat /\ AwsBuffer \in Nat /\ MaxLogins \in Nat
    /\ \A command : LagOf(command) \in Nat /\ LagOf(command) < Lifetime
    /\ \A s : LagOf(sh[s].command) <= BufferOf(s) /\ BufferOf(s) \in Nat
BY TokenAssumption DEF LagOf, BufferOf

-----------------------------------------------------------------------------
(* States of a shell, and the tokens they hold. *)

LEMMA EmptyTokens == Paired(Absent) /\ Paired(Unreadable)
BY DEF Paired, Absent, Unreadable, Credentials

LEMMA NewTokens ==
    ASSUME NEW n \in Nat
    PROVE  Paired(Tokens(n, n, Lifetime)) /\ Tokens(n, n, Lifetime).left = Lifetime
BY Numbers DEF Paired, Tokens, Credentials

\* A refresh keeps the pair, since the new token is of the login refreshed.
LEMMA RefreshedTokens ==
    ASSUME NEW s \in Shells, Paired(sh[s].creds)
    PROVE  Paired(Refreshed(s)) /\ Refreshed(s).left = Lifetime
BY Numbers DEF Paired, Refreshed, Credentials

\* A tick takes one from the time left, if there is any.
LEMMA LessTokens ==
    ASSUME NEW c, Paired(c)
    PROVE  Paired(Less(c)) /\ (c.left > 0 => Less(c).left = c.left - 1)
BY DEF Less, Credentials, Paired

LEMMA PromptSound == Sound(Prompt)
BY EmptyTokens, Numbers
   DEF Sound, Prompt, ShellStates, Steps, Commands, HoldingSteps, UsingSteps, Paired

\* A command that was just started, or has forgotten its token.
LEMMA StartedSound ==
    ASSUME NEW name \in Commands, NEW pc \in Steps \ HoldingSteps,
           pc \in {"login", "loadForLogin"} => name = "login",
           pc \in {"load", "refresh"} => name # "login"
    PROVE  Sound([Prompt EXCEPT !.command = name, !.pc = pc])
<1> DEFINE new == [Prompt EXCEPT !.command = name, !.pc = pc]
<1>1. Prompt \in ShellStates /\ Paired(Prompt.creds)
  BY PromptSound DEF Sound
<1>2. new \in ShellStates /\ new.pc = pc /\ new.command = name /\ new.creds = Absent /\ new.lag = 0
  BY <1>1 DEF ShellStates, Prompt
<1>3. LagOf(name) \in Nat
  BY Numbers
<1>4. pc \notin UsingSteps
  BY DEF UsingSteps, HoldingSteps
<1> HIDE DEF new
<1>5. Sound(new)
  BY <1>2, <1>3, <1>4, EmptyTokens DEF Sound
<1> QED BY <1>5 DEF new

-----------------------------------------------------------------------------
LEMMA InitHolds == Init => TokenInv
BY PromptSound, EmptyTokens, Numbers
   DEF Init, OtherProfiles, Profiles, TokenInv, TypeOK, Sound, Paired

\* A step of one shell keeps the invariant if the state it leaves is sound.
LEMMA OneShell ==
    ASSUME TokenInv, NEW s \in Shells, NEW st, Sound(st), sh' = [sh EXCEPT ![s] = st],
           Paired(file'), aws' \subseteq Profiles, behind' \subseteq Shells,
           logins' \in 0 .. MaxLogins, saved' \in Nat, calm' \in BOOLEAN
    PROVE  TokenInv'
<1>1. \A t \in Shells : Sound(sh'[t])
  BY DEF TokenInv, TypeOK
<1>2. sh' \in [Shells -> ShellStates]
  BY DEF TokenInv, TypeOK, Sound
<1>3. TypeOK'
  BY <1>2 DEF TypeOK, Paired
<1> QED BY <1>1, <1>3 DEF TokenInv, Sound, Paired

LEMMA ShellSteps ==
    ASSUME TokenInv, NEW s \in Shells,
           \/ \E name \in {"login", "token", "whoami", "aws-creds"} : Start(s, name)
           \/ Login(s) \/ LoadForLogin(s)
           \/ Load(s) \/ Refresh(s)
           \/ Save(s) \/ Flush(s)
           \/ Exchange(s) \/ LoadAws(s) \/ SaveAws(s) \/ FlushAws(s)
           \/ End(s)
    PROVE  TokenInv'
<1> DEFINE st == sh[s]
<1>0. /\ Sound(st) /\ Paired(file) /\ sh \in [Shells -> ShellStates]
      /\ aws \subseteq Profiles /\ behind \subseteq Shells /\ calm \in BOOLEAN
      /\ logins \in 0 .. MaxLogins /\ logins \in Nat /\ saved \in Nat
  BY Numbers DEF TokenInv, TypeOK
<1>a. ASSUME NEW new, Sound(new), sh' = [sh EXCEPT ![s] = new],
             UNCHANGED <<file, aws, behind, logins, saved>>, calm' \in BOOLEAN
      PROVE  TokenInv'
  BY <1>0, <1>a, OneShell
<1>b. ASSUME Return(s), UNCHANGED <<file, aws, behind, logins, saved>>, calm' \in BOOLEAN
      PROVE  TokenInv'
  BY <1>a, <1>b, PromptSound DEF Return
<1> USE DEF At, Go, Return
<1>1. ASSUME NEW name \in {"login", "token", "whoami", "aws-creds"}, Start(s, name) PROVE TokenInv'
  <2> DEFINE new == [Prompt EXCEPT !.command = name, !.pc = IF name = "login" THEN "login" ELSE "load"]
  <2>1. Sound(new)
    BY StartedSound DEF Commands, Steps, HoldingSteps
  <2> QED BY <1>0, <1>1, <1>a, <2>1 DEF Start
<1>2. CASE Login(s)
  <2> DEFINE new == [st EXCEPT !.pc = "loadForLogin", !.creds = Tokens(logins', logins', Lifetime)]
  <2>1. logins' \in 0 .. MaxLogins /\ logins' \in Nat
    BY <1>0, <1>2, Numbers DEF Login
  <2>2. Sound(new)
    BY <1>0, <1>2, <2>1, NewTokens DEF Login, Sound, ShellStates, Steps, HoldingSteps, UsingSteps, Paired
  <2> QED BY <1>0, <1>2, <2>1, <2>2, OneShell DEF Login
<1>3. CASE LoadForLogin(s)
  <2>1. CASE file # Unreadable
    <3>1. Sound([st EXCEPT !.pc = "save"])
      BY <1>0, <1>3 DEF LoadForLogin, Sound, ShellStates, Steps, HoldingSteps, UsingSteps
    <3> QED BY <1>0, <1>3, <1>a, <2>1, <3>1 DEF LoadForLogin
  <2> QED BY <1>0, <1>3, <1>b, <2>1 DEF LoadForLogin
<1>4. CASE Load(s)
  <2> DEFINE new == [st EXCEPT !.creds = file,
                               !.pc = IF Expired(file, BufferOf(s)) THEN "refresh" ELSE AfterCheck(s)]
  <2>1. CASE file.state # "saved" \/ st.command = "whoami"
    BY <1>0, <1>4, <1>b, <2>1 DEF Load
  <2>2. CASE ~(file.state # "saved" \/ st.command = "whoami")
    <3>1. st.pc = "load" /\ st.lag = 0 /\ st.command # "login" /\ file.left \in Nat
      BY <1>0, <1>4 DEF Load, Sound, HoldingSteps, Paired, Credentials
    <3>2. ~Expired(file, BufferOf(s)) => file.left > LagOf(st.command)
      BY <3>1, Numbers DEF Expired
    <3> DEFINE pc == IF Expired(file, BufferOf(s)) THEN "refresh" ELSE AfterCheck(s)
    <3>a. /\ pc \in {"refresh", "exchange", "print"}
          /\ pc # "refresh" => file.left > LagOf(st.command)
      BY <3>2 DEF AfterCheck
    <3> HIDE DEF pc
    <3>b. ASSUME NEW q \in {"refresh", "exchange", "print"}, q # "refresh" => file.left > LagOf(st.command)
          PROVE  Sound([st EXCEPT !.creds = file, !.pc = q])
      <4> DEFINE some == [st EXCEPT !.creds = file, !.pc = q]
      <4>1. st \in ShellStates /\ q \in Steps /\ Paired(file)
        BY <1>0 DEF Sound, Steps
      <4>2. /\ some \in ShellStates
            /\ some.creds = file /\ some.pc = q /\ some.lag = 0
            /\ some.command = st.command /\ some.command # "login"
        BY <3>1, <4>1 DEF ShellStates, Paired
      <4> HIDE DEF some
      <4>3. (q # "refresh" => file.left + 0 > LagOf(st.command)) /\ 0 <= LagOf(st.command)
        BY <3>1, <3>b, Numbers
      <4> QED BY <4>1, <4>2, <4>3 DEF Sound, HoldingSteps, UsingSteps, some
    <3>3. Sound(new)
      BY <3>a, <3>b DEF pc
    <3> QED BY <1>0, <1>4, <1>a, <2>2, <3>3 DEF Load
  <2> QED BY <2>1, <2>2
<1>5. CASE Refresh(s)
  <2> DEFINE new == [st EXCEPT !.creds = Refreshed(s), !.pc = "save"]
  <2>1. st.pc = "refresh" /\ st.lag = 0 /\ Paired(st.creds)
    BY <1>0, <1>5 DEF Refresh, Sound, HoldingSteps
  <2>2. Paired(Refreshed(s)) /\ Refreshed(s).left = Lifetime
    BY <2>1, RefreshedTokens
  <2>3. ASSUME NEW c, Paired(c), c.left = Lifetime PROVE Sound([st EXCEPT !.creds = c, !.pc = "save"])
    <3> DEFINE some == [st EXCEPT !.creds = c, !.pc = "save"]
    <3>1. st \in ShellStates /\ "save" \in Steps
      BY <1>0 DEF Sound, Steps
    <3>2. /\ some \in ShellStates
          /\ some.creds = c /\ some.pc = "save" /\ some.lag = 0 /\ some.command = st.command
      BY <2>1, <2>3, <3>1 DEF ShellStates, Paired
    <3> HIDE DEF some
    <3>3. c.left + 0 > LagOf(st.command) /\ 0 <= LagOf(st.command)
      BY <2>3, Numbers
    <3> QED BY <2>3, <3>2, <3>3 DEF Sound, HoldingSteps, UsingSteps, some
  <2>4. Sound(new)
    BY <2>2, <2>3
  <2> QED BY <1>0, <1>5, <1>a, <2>4 DEF Refresh
<1>6. CASE Save(s)
  <2>1. Sound([st EXCEPT !.pc = "flush"])
    BY <1>0, <1>6 DEF Save, Sound, ShellStates, Steps, HoldingSteps, UsingSteps
  <2> QED BY <1>0, <1>6, <2>1, EmptyTokens, OneShell DEF Save
<1>7. CASE Flush(s)
  <2>1. Paired(file') /\ behind' \subseteq Shells /\ st.creds.login \in Nat
    BY <1>0, <1>7, EmptyTokens DEF Flush, Sound, Paired, Credentials
  <2>2. CASE st.command = "login"
    BY <1>0, <1>7, <2>1, <2>2, PromptSound, OneShell DEF Flush
  <2>3. CASE st.command # "login"
    <3>1. Sound([st EXCEPT !.pc = AfterCheck(s)])
      BY <1>0, <1>7, <2>3 DEF Flush, Sound, ShellStates, Steps, HoldingSteps, UsingSteps, AfterCheck
    <3> QED BY <1>0, <1>7, <2>1, <2>3, <3>1, OneShell DEF Flush
  <2> QED BY <2>2, <2>3
<1>8. CASE Exchange(s)
  <2>1. Sound([Prompt EXCEPT !.command = "aws-creds", !.pc = "loadAws"])
    BY StartedSound DEF Commands, Steps, HoldingSteps
  <2> QED BY <1>0, <1>8, <1>a, <2>1 DEF Exchange
<1>9. CASE LoadAws(s)
  <2>1. Added(aws) \subseteq Profiles
    BY <1>0 DEF Added, Profiles
  <2>2. Sound([st EXCEPT !.profiles = Added(aws), !.pc = "saveAws"])
    BY <1>0, <1>9, <2>1 DEF LoadAws, Sound, ShellStates, Steps, HoldingSteps, UsingSteps
  <2> QED BY <1>0, <1>9, <1>a, <2>2 DEF LoadAws
<1>10. CASE SaveAws(s)
  <2>1. Sound([st EXCEPT !.pc = "flushAws"])
    BY <1>0, <1>10 DEF SaveAws, Sound, ShellStates, Steps, HoldingSteps, UsingSteps
  <2> QED BY <1>0, <1>10, <2>1, OneShell DEF SaveAws
<1>11. CASE FlushAws(s)
  <2>1. aws' \subseteq Profiles
    BY <1>0, <1>11 DEF FlushAws, Sound, ShellStates
  <2> QED BY <1>0, <1>11, <2>1, PromptSound, OneShell DEF FlushAws
<1>12. CASE End(s)
  BY <1>0, <1>12, PromptSound, OneShell DEF End
<1> QED BY <1>1, <1>2, <1>3, <1>4, <1>5, <1>6, <1>7, <1>8, <1>9, <1>10, <1>11, <1>12

\* A tick spends one of the buffer in every shell that holds a token.
LEMMA TickSteps ==
    ASSUME TokenInv, Tick
    PROVE  TokenInv'
<1>1. ASSUME NEW t \in Shells PROVE Sound(sh'[t])
  <2> DEFINE st == sh[t]
             new == [st EXCEPT !.creds = Less(@), !.lag = IF Holding(t) THEN @ + 1 ELSE @]
  <2>1. Sound(st) /\ sh'[t] = new /\ (Holding(t) => st.lag < LagOf(st.command))
    BY DEF TokenInv, TypeOK, Tick
  <2>2. Holding(t) <=> st.pc \in HoldingSteps
    BY DEF Holding, HoldingSteps
  <2>3. /\ Paired(Less(st.creds)) /\ Less(st.creds).left \in Nat /\ st.creds.left \in Nat
        /\ st.creds.left > 0 => Less(st.creds).left = st.creds.left - 1
        /\ st.lag \in Nat /\ st.lag <= LagOf(st.command) /\ LagOf(st.command) \in Nat
    BY <2>1, LessTokens, Numbers DEF Sound, Paired, Credentials, ShellStates
  <2>4. new \in ShellStates
    <3>1. (IF Holding(t) THEN st.lag + 1 ELSE st.lag) \in Nat
      BY <2>3
    <3>2. st \in ShellStates /\ Less(st.creds) \in Credentials
      BY <2>1, <2>3 DEF Sound, Paired
    <3>3. ASSUME NEW lag \in Nat PROVE [st EXCEPT !.creds = Less(@), !.lag = lag] \in ShellStates
      BY <3>2 DEF ShellStates
    <3> QED BY <3>1, <3>2, <3>3 DEF ShellStates
  <2>5. /\ new.pc = st.pc /\ new.command = st.command /\ new.creds = Less(st.creds)
        /\ new.lag = (IF Holding(t) THEN st.lag + 1 ELSE st.lag)
    BY <2>1 DEF Sound, ShellStates
  <2>6. st.pc \in HoldingSteps /\ st.command # "login" =>
          Less(st.creds).left + (st.lag + 1) > LagOf(st.command)
    BY <2>1, <2>2, <2>3 DEF Sound
  <2>7. new.lag <= LagOf(new.command)
    BY <2>1, <2>3, <2>5
  <2> QED BY <2>1, <2>2, <2>3, <2>4, <2>5, <2>6, <2>7 DEF Sound
<1>2. sh' \in [Shells -> ShellStates]
  BY <1>1 DEF Sound, Tick
<1>3. Paired(file')
  BY LessTokens DEF TokenInv, Tick
<1> QED BY <1>1, <1>2, <1>3 DEF TokenInv, TypeOK, Tick, Sound, Paired

LEMMA StepHolds == TokenInv /\ [Next]_vars => TokenInv'
<1> SUFFICES ASSUME TokenInv, [Next]_vars PROVE TokenInv'
  OBVIOUS
<1>1. CASE Tick
  BY <1>1, TickSteps
<1>2. CASE UNCHANGED vars
  BY <1>2 DEF vars, TokenInv, TypeOK, Sound, Paired
<1> QED BY <1>1, <1>2, ShellSteps DEF Next

-----------------------------------------------------------------------------
\* The inductive invariant.
LEMMA TokenInvariant == Spec => []TokenInv
BY InitHolds, StepHolds, PTL DEF Spec

\* The files and the shells' memory keep their types.
THEOREM TypeCorrect == Spec => []TypeOK
<1>1. TokenInv => TypeOK
  BY DEF TokenInv
<1> QED BY <1>1, TokenInvariant, PTL

\* toshi_auth.py never puts the access token of one login beside the refresh
\* token of another, however many shells overlap or die.
THEOREM OneLoginSaved == Spec => []OneLoginInTheFile
<1>1. TokenInv => OneLoginInTheFile
  BY DEF TokenInv, Paired, OneLoginInTheFile
<1> QED BY <1>1, TokenInvariant, PTL

\* The buffers of token and aws-creds cover the time to the use of the token.
THEOREM TokensLiveWhenUsed == Spec => []UsedTokensAreLive
<1>1. TokenInv => UsedTokensAreLive
  <2> SUFFICES ASSUME TokenInv, NEW s \in Shells, sh[s].pc \in UsingSteps PROVE sh[s].creds.left > 0
    BY DEF UsedTokensAreLive, UsingSteps
  <2> DEFINE most == LagOf(sh[s].command)
  <2>1. /\ sh[s].creds.left + sh[s].lag > most /\ sh[s].lag <= most
        /\ sh[s].lag \in Nat /\ sh[s].creds.left \in Nat
    BY DEF TokenInv, Sound, UsingSteps, HoldingSteps, ShellStates, Credentials
  <2> QED BY <2>1, Numbers
<1> QED BY <1>1, TokenInvariant, PTL

-----------------------------------------------------------------------------
(* Commands whose writes do not overlap. *)

\* A command between its decision to write and the end of its writing.
Writing(st) == st.pc \in {"refresh", "save", "flush", "saveAws", "flushAws"}

\* What a shell is about to save are tokens.
HoldsTokens ==
    \A s \in Shells : sh[s].pc \in {"loadForLogin", "refresh", "save", "flush"} =>
        sh[s].creds.state = "saved"

\* One shell writes at a time, and writes the file it opened from the start.
OneWriter ==
    /\ \A s, t \in Shells : Writing(sh[s]) /\ Writing(sh[t]) => s = t
    /\ \A s \in Shells : At(s, "flush") => s \notin behind

\* A refresh is of the login saved last, which the file holds.
LastLoginKept ==
    /\ \A s \in Shells :
          sh[s].pc \in {"refresh", "save", "flush"} /\ sh[s].command # "login" =>
              sh[s].creds.login = saved
    /\ (\A s \in Shells : ~At(s, "flush")) =>
          /\ file.state = "saved" => file.login = saved
          /\ saved > 0 => file.state = "saved"

ProfilesKept ==
    /\ \A s \in Shells : sh[s].pc \in {"saveAws", "flushAws"} => OtherProfiles \subseteq sh[s].profiles
    /\ (\A s \in Shells : ~At(s, "flushAws")) => OtherProfiles \subseteq aws

CalmInv == HoldsTokens /\ (calm => OneWriter /\ LastLoginKept /\ ProfilesKept)

LEMMA CalmShellSteps ==
    ASSUME TokenInv, CalmInv, NEW s \in Shells,
           \/ \E name \in {"login", "token", "whoami", "aws-creds"} : Start(s, name)
           \/ Login(s) \/ LoadForLogin(s)
           \/ Load(s) \/ Refresh(s)
           \/ Save(s) \/ Flush(s)
           \/ Exchange(s) \/ LoadAws(s) \/ SaveAws(s) \/ FlushAws(s)
           \/ End(s)
    PROVE  CalmInv'
<1>0. /\ sh \in [Shells -> ShellStates] /\ Paired(file) /\ \A t \in Shells : Sound(sh[t])
      /\ behind \subseteq Shells
  BY DEF TokenInv, TypeOK
<1> USE DEF CalmInv, HoldsTokens, OneWriter, LastLoginKept, ProfilesKept, Writing, At, Go, Return
<1>1. ASSUME NEW name \in {"login", "token", "whoami", "aws-creds"}, Start(s, name) PROVE CalmInv'
  BY <1>0, <1>1 DEF Start, Prompt
<1>2. CASE Login(s)
  BY <1>0, <1>2, SMTT(30) DEF Login, Tokens, ShellStates
<1>3. CASE LoadForLogin(s)
  <2>1. CASE file = Unreadable
    BY <1>0, <1>3, <2>1 DEF LoadForLogin, Prompt
  <2>2. CASE file # Unreadable
    <3>1. /\ sh' = [sh EXCEPT ![s].pc = "save"] /\ sh[s].pc = "loadForLogin"
          /\ UNCHANGED <<file, aws, behind, logins, saved>>
          /\ calm' => calm /\ ~OthersWrite(s)
      BY <1>3, <2>2 DEF LoadForLogin
    <3>2. /\ sh'[s] = [sh[s] EXCEPT !.pc = "save"] /\ \A t \in Shells : t # s => sh'[t] = sh[t]
          /\ sh'[s].pc = "save" /\ sh'[s].creds = sh[s].creds /\ sh'[s].command = "login"
      BY <1>0, <3>1 DEF Sound, ShellStates
    <3>3. HoldsTokens'
      BY <3>1, <3>2
    <3>4. ASSUME calm' PROVE OneWriter' /\ LastLoginKept' /\ ProfilesKept'
      BY <3>1, <3>2, <3>4 DEF OthersWrite
    <3> QED BY <3>3, <3>4
  <2> QED BY <2>1, <2>2
<1>4. CASE Load(s)
  BY <1>0, <1>4 DEF Load, Prompt, OthersWrite, ShellStates, AfterCheck
<1>5. CASE Refresh(s)
  <2>1. /\ sh[s].pc = "refresh" /\ UNCHANGED <<file, aws, behind, logins, saved, calm>>
        /\ sh'[s] = [sh[s] EXCEPT !.creds = Refreshed(s), !.pc = "save"]
        /\ \A t \in Shells : t # s => sh'[t] = sh[t]
    BY <1>0, <1>5 DEF Refresh
  <2>2. /\ sh[s] \in ShellStates /\ sh[s].creds \in Credentials
        /\ sh[s].creds.login = sh[s].creds.refresh
    BY <1>0 DEF ShellStates, Sound, Paired
  <2>3. /\ sh'[s].pc = "save" /\ sh'[s].command = sh[s].command
        /\ sh'[s].profiles = sh[s].profiles /\ sh'[s].creds = Refreshed(s)
    BY <2>1, <2>2 DEF ShellStates
  <2>4. HoldsTokens /\ sh[s].creds.state = "saved"
    BY <2>1
  <2>5. /\ Refreshed(s).state = "saved"
        /\ Refreshed(s).login = sh[s].creds.login
    BY <2>2, <2>4 DEF Refreshed, Credentials
  <2>6. HoldsTokens'
    BY <2>1, <2>3, <2>4, <2>5
  <2>7. ASSUME calm' PROVE OneWriter' /\ LastLoginKept' /\ ProfilesKept'
    <3>1. OneWriter /\ LastLoginKept /\ ProfilesKept
      BY <2>1, <2>7
    <3>2. \A t \in Shells : /\ sh'[t].pc = sh[t].pc \/ (t = s /\ sh'[t].pc = "save" /\ sh[t].pc = "refresh")
                           /\ sh'[t].command = sh[t].command /\ sh'[t].profiles = sh[t].profiles
                           /\ sh'[t].creds.login = sh[t].creds.login
      BY <2>1, <2>3, <2>5
    <3>3. OneWriter'
      BY <2>1, <3>1, <3>2
    <3>4. LastLoginKept'
      BY <2>1, <3>1, <3>2
    <3>5. ProfilesKept'
      BY <2>1, <3>1, <3>2
    <3> QED BY <3>3, <3>4, <3>5
  <2> QED BY <2>6, <2>7
<1>6. CASE Save(s)
  BY <1>0, <1>6 DEF Save, ShellStates
<1>7. CASE Flush(s)
  BY <1>0, <1>7 DEF Flush, ShellStates, AfterCheck, Prompt
<1>8. CASE Exchange(s)
  BY <1>0, <1>8 DEF Exchange, Prompt
<1>9. CASE LoadAws(s)
  BY <1>0, <1>9 DEF LoadAws, OthersWrite, Added, ShellStates
<1>10. CASE SaveAws(s)
  BY <1>0, <1>10 DEF SaveAws, ShellStates
<1>11. CASE FlushAws(s)
  BY <1>0, <1>11 DEF FlushAws, Prompt
<1>12. CASE End(s)
  BY <1>0, <1>12 DEF End, Prompt
<1> QED BY <1>1, <1>2, <1>3, <1>4, <1>5, <1>6, <1>7, <1>8, <1>9, <1>10, <1>11, <1>12

\* A tick changes neither a command's place nor whose tokens it holds.
LEMMA CalmTickSteps ==
    ASSUME TokenInv, CalmInv, Tick
    PROVE  CalmInv'
<1>1. ASSUME NEW c \in Credentials PROVE Less(c).state = c.state /\ Less(c).login = c.login
  BY <1>1 DEF Less, Credentials
<1>2. /\ file \in Credentials
      /\ \A t \in Shells : sh[t] \in ShellStates /\ sh[t].creds \in Credentials
  BY DEF TokenInv, TypeOK, ShellStates
<1>3. ASSUME NEW t \in Shells
      PROVE  /\ sh'[t].pc = sh[t].pc /\ sh'[t].command = sh[t].command
             /\ sh'[t].profiles = sh[t].profiles /\ sh'[t].creds = Less(sh[t].creds)
  BY <1>2 DEF Tick, ShellStates
<1>4. ASSUME NEW t \in Shells
      PROVE  sh'[t].creds.state = sh[t].creds.state /\ sh'[t].creds.login = sh[t].creds.login
  BY <1>1, <1>2, <1>3
<1>5. /\ file'.state = file.state /\ file'.login = file.login
      /\ UNCHANGED <<aws, behind, logins, saved, calm>>
  BY <1>1, <1>2 DEF Tick
<1>6. HoldsTokens'
  BY <1>3, <1>4 DEF CalmInv, HoldsTokens
<1>7. OneWriter => OneWriter'
  BY <1>3, <1>5 DEF OneWriter, Writing, At
<1>8. LastLoginKept => LastLoginKept'
  BY <1>3, <1>4, <1>5 DEF LastLoginKept, At
<1>9. ProfilesKept => ProfilesKept'
  BY <1>3, <1>5 DEF ProfilesKept, At
<1> QED BY <1>5, <1>6, <1>7, <1>8, <1>9 DEF CalmInv

\* The invariant of commands that do not overlap.
LEMMA CalmInvariant == Spec => []CalmInv
<1>1. Init => CalmInv
  BY DEF Init, CalmInv, HoldsTokens, OneWriter, LastLoginKept, ProfilesKept, Writing, At,
         Prompt, Absent
<1>2. TokenInv /\ CalmInv /\ [Next]_vars => CalmInv'
  <2> SUFFICES ASSUME TokenInv, CalmInv, [Next]_vars PROVE CalmInv'
    OBVIOUS
  <2>1. CASE Tick
    BY <2>1, CalmTickSteps
  <2>2. CASE UNCHANGED vars
    BY <2>2 DEF vars, CalmInv, HoldsTokens, OneWriter, LastLoginKept, ProfilesKept, At
  <2> QED BY <2>1, <2>2, CalmShellSteps DEF Next
<1> QED BY <1>1, <1>2, TokenInvariant, PTL DEF Spec

\* As long as toshi_auth.py's writers do not overlap and none dies while
\* writing, the last login stays in the credentials file, and the other
\* tools' profiles in the AWS file.
THEOREM FilesComeToNoHarm == Spec => []NothingLost
<1>1. CalmInv => NothingLost
  BY DEF CalmInv, LastLoginKept, ProfilesKept, NothingLost
<1> QED BY <1>1, CalmInvariant, PTL
=============================================================================
