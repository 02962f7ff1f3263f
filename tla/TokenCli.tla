------------------------------ MODULE TokenCli ------------------------------
(***************************************************************************)
(* toshi_auth.py run in several shells of one account.  The shells share   *)
(* ~/.toshi/credentials, which holds the tokens of a login, and            *)
(* ~/.aws/credentials, which holds profiles of other tools as well.  Both  *)
(* are read whole, changed in memory, and written in place: opened with    *)
(* 'w', which empties the file, and filled when the buffer is flushed.     *)
(* Logins are numbered; time is counted in ticks of the shortest buffer,   *)
(* and a token carries the ticks it has left.                              *)
(***************************************************************************)
EXTENDS Naturals, FiniteSets

CONSTANTS
    Shells,
    Lifetime,   \* ticks an access token is valid
    Buffer,     \* is_token_expired's default, for token
    AwsBuffer,  \* the buffer of aws-creds
    MaxLag,     \* bound on the ticks between the check of a token and its use
    MaxAwsLag,  \* the same of aws-creds, which calls two services first
    MaxLogins   \* bound on the logins

\* Each buffer covers what its command does between the check of a token and
\* its last use; token's need not cover what aws-creds does.
ASSUME TokenAssumption ==
    /\ {Lifetime, Buffer, AwsBuffer, MaxLag, MaxAwsLag, MaxLogins} \subseteq Nat
    /\ MaxLag < Lifetime /\ MaxLag <= Buffer
    /\ MaxAwsLag < Lifetime /\ MaxAwsLag <= AwsBuffer

VARIABLES
    file,    \* credentials: Absent, Unreadable, or the tokens saved
    aws,     \* the profiles in the AWS file
    sh,      \* each shell: where its command is and what it holds in memory
    behind,  \* shells whose file was written since they opened it
    logins,  \* number of logins so far
    saved,   \* the login saved last
    calm     \* no two writers overlapped, none died while writing

vars == <<file, aws, sh, behind, logins, saved, calm>>

\* The access token (its login and ticks left) and the login of the refresh
\* token.
Tokens(login, refresh, left) ==
    [state |-> "saved", login |-> login, refresh |-> refresh, left |-> left]
Absent == [state |-> "absent", login |-> 0, refresh |-> 0, left |-> 0]
Unreadable == [state |-> "unreadable", login |-> 0, refresh |-> 0, left |-> 0]

OwnProfile == "toshi"
OtherProfiles == {"admin"}

\* A shell between two commands.
Prompt == [pc |-> "idle", command |-> "none", lag |-> 0, creds |-> Absent, profiles |-> {}]

Init ==
    /\ file = Absent
    /\ aws = OtherProfiles
    /\ sh = [s \in Shells |-> Prompt]
    /\ behind = {}
    /\ logins = 0
    /\ saved = 0
    /\ calm = TRUE

At(s, pc) == sh[s].pc = pc
Go(s, pc) == sh' = [sh EXCEPT ![s].pc = pc]
Return(s) == sh' = [sh EXCEPT ![s] = Prompt]

\* is_token_expired.
Expired(token, buffer) == token.left <= buffer

\* The buffer it is called with; mutant: aws-creds takes the default.
Default(s) == Buffer
BufferOf(s) == IF sh[s].command = "aws-creds" THEN AwsBuffer ELSE Buffer
AfterCheck(s) == IF sh[s].command = "aws-creds" THEN "exchange" ELSE "print"

\* A shell that has read a file and will write it.
OthersWrite(s) ==
    \E t \in Shells \ {s} : sh[t].pc \in {"refresh", "save", "flush", "saveAws", "flushAws"}

\* A command is started; login asks Cognito before it reads the file.
Start(s, name) ==
    /\ At(s, "idle")
    /\ sh' = [sh EXCEPT ![s] = [Prompt EXCEPT !.command = name,
                                              !.pc = IF name = "login" THEN "login" ELSE "load"]]
    /\ UNCHANGED <<file, aws, behind, logins, saved, calm>>

\* password_flow_login; a refusal ends the command (End).
Login(s) ==
    /\ At(s, "login")
    /\ logins < MaxLogins
    /\ logins' = logins + 1
    /\ sh' = [sh EXCEPT ![s].pc = "loadForLogin", ![s].creds = Tokens(logins', logins', Lifetime)]
    /\ UNCHANGED <<file, aws, behind, saved, calm>>

\* load_credentials in login, where every entry is then replaced.
LoadForLogin(s) ==
    /\ At(s, "loadForLogin")
    /\ IF file = Unreadable
       THEN Return(s) /\ UNCHANGED calm
       ELSE Go(s, "save") /\ calm' = (calm /\ ~OthersWrite(s))
    /\ UNCHANGED <<file, aws, behind, logins, saved>>

\* load_credentials and the check in token, aws-creds and whoami, which only
\* prints what it read.
Load(s) ==
    /\ At(s, "load")
    /\ IF file.state # "saved" \/ sh[s].command = "whoami"
       THEN Return(s) /\ UNCHANGED calm
       ELSE /\ sh' = [sh EXCEPT ![s].creds = file,
                                ![s].pc = IF Expired(file, BufferOf(s)) THEN "refresh" ELSE AfterCheck(s)]
            /\ calm' = (calm /\ ~(At(s, "refresh")' /\ OthersWrite(s)))
    /\ UNCHANGED <<file, aws, behind, logins, saved>>

\* refresh_token: a new access token of the login whose refresh token is held.
\* Mutant: it is put beside what the file holds by now.
Merged(s) == [file EXCEPT !.state = "saved", !.login = sh[s].creds.refresh, !.left = Lifetime]
Refreshed(s) == [sh[s].creds EXCEPT !.login = sh[s].creds.refresh, !.left = Lifetime]
Refresh(s) ==
    /\ At(s, "refresh")
    /\ sh' = [sh EXCEPT ![s].creds = Refreshed(s), ![s].pc = "save"]
    /\ UNCHANGED <<file, aws, behind, logins, saved, calm>>

\* save_credentials: open empties the file, and the flush writes from its
\* start: over a longer text written meanwhile it leaves a tail behind.
Save(s) ==
    /\ At(s, "save")
    /\ file' = Unreadable
    /\ behind' = behind \ {s}
    /\ Go(s, "flush")
    /\ UNCHANGED <<aws, logins, saved, calm>>

Flush(s) ==
    /\ At(s, "flush")
    /\ file' \in {sh[s].creds} \union (IF s \in behind THEN {Unreadable} ELSE {})
    /\ behind' = (behind \union {t \in Shells : At(t, "flush")}) \ {s}
    /\ IF sh[s].command = "login"
       THEN saved' = sh[s].creds.login /\ Return(s)
       ELSE UNCHANGED saved /\ Go(s, AfterCheck(s))
    /\ UNCHANGED <<aws, logins, calm>>

\* get_aws_credentials: get_id and get_credentials_for_identity, the read of
\* the AWS file, and its rewrite with the profile added.
Exchange(s) ==
    /\ At(s, "exchange")
    /\ sh' = [sh EXCEPT ![s] = [Prompt EXCEPT !.command = "aws-creds", !.pc = "loadAws"]]
    /\ UNCHANGED <<file, aws, behind, logins, saved, calm>>

\* Mutant: the file is written anew.
OwnOnly(old) == {OwnProfile}
Added(old) == old \union {OwnProfile}

LoadAws(s) ==
    /\ At(s, "loadAws")
    /\ sh' = [sh EXCEPT ![s].profiles = Added(aws), ![s].pc = "saveAws"]
    /\ calm' = (calm /\ ~OthersWrite(s))
    /\ UNCHANGED <<file, aws, behind, logins, saved>>

SaveAws(s) ==
    /\ At(s, "saveAws")
    /\ aws' = {}
    /\ Go(s, "flushAws")
    /\ UNCHANGED <<file, behind, logins, saved, calm>>

FlushAws(s) ==
    /\ At(s, "flushAws")
    /\ aws' = sh[s].profiles
    /\ Return(s)
    /\ UNCHANGED <<file, behind, logins, saved, calm>>

\* The token is printed (pc print), a call fails, or the user ends the
\* command; a file it had just opened stays empty.
End(s) ==
    /\ ~At(s, "idle")
    /\ Return(s)
    /\ behind' = behind \ {s}
    /\ calm' = (calm /\ sh[s].pc \notin {"flush", "flushAws"})
    /\ UNCHANGED <<file, aws, logins, saved>>

Less(token) == [token EXCEPT !.left = IF @ > 0 THEN @ - 1 ELSE 0]
LagOf(command) == IF command = "aws-creds" THEN MaxAwsLag ELSE MaxLag
Holding(s) == sh[s].pc \in {"save", "flush", "print", "exchange"}
Tick ==
    /\ \A s \in Shells : Holding(s) => sh[s].lag < LagOf(sh[s].command)
    /\ file' = Less(file)
    /\ sh' = [s \in Shells |-> [sh[s] EXCEPT !.creds = Less(@),
                                             !.lag = IF Holding(s) THEN @ + 1 ELSE @]]
    /\ UNCHANGED <<aws, behind, logins, saved, calm>>

Next ==
    \/ \E s \in Shells :
         \/ \E name \in {"login", "token", "whoami", "aws-creds"} : Start(s, name)
         \/ Login(s) \/ LoadForLogin(s)
         \/ Load(s) \/ Refresh(s)
         \/ Save(s) \/ Flush(s)
         \/ Exchange(s) \/ LoadAws(s) \/ SaveAws(s) \/ FlushAws(s)
         \/ End(s)
    \/ Tick

Spec == Init /\ [][Next]_vars
-----------------------------------------------------------------------------
Steps == {"idle", "login", "loadForLogin", "load", "refresh", "save", "flush", "print",
          "exchange", "loadAws", "saveAws", "flushAws"}
Commands == {"none", "login", "token", "whoami", "aws-creds"}
Profiles == OtherProfiles \union {OwnProfile}
Credentials == [state : {"absent", "unreadable", "saved"}, login : Nat, refresh : Nat, left : Nat]

ShellStates == [pc : Steps, command : Commands, lag : Nat,
                creds : Credentials, profiles : SUBSET Profiles]

\* Types of the files and of what the shells hold in memory.
TypeOK ==
    /\ file \in Credentials
    /\ aws \subseteq Profiles
    /\ sh \in [Shells -> ShellStates]
    /\ behind \subseteq Shells
    /\ logins \in 0 .. MaxLogins
    /\ saved \in Nat
    /\ calm \in BOOLEAN

\* Whatever shells overlap or die, the saved access token and refresh token
\* are of one login: a refresh never puts another login's token beside its own.
OneLoginInTheFile == file.state = "saved" => file.login = file.refresh

\* A token is live when it is printed or exchanged, the refresh and the rewrite
\* of the file in between included: each command checks with a buffer that
\* covers its own time from the check to the last use, and aws-creds takes
\* longer than the buffer of token.
UsedTokensAreLive ==
    \A s \in Shells : sh[s].pc \in {"print", "exchange"} => sh[s].creds.left > 0

\* As long as no two commands that write overlap and none dies while writing,
\* the files come to no harm: the last login stays, a refresh of the one
\* before does not undo it, and other tools' profiles are kept.
NothingLost ==
    calm =>
      /\ (\A s \in Shells : ~At(s, "flush")) /\ saved > 0 => file.state = "saved" /\ file.login = saved
      /\ (\A s \in Shells : ~At(s, "flushAws")) => OtherProfiles \subseteq aws
=============================================================================
