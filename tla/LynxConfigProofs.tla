--------------------------- MODULE LynxConfigProofs ---------------------------
(***************************************************************************)
(* The properties of LynxConfig, for any values the users give and however *)
(* many times .sav is appended.                                            *)
(*                                                                         *)
(* A document that was written holds every option, so that a run that is   *)
(* given nothing takes all of them from it; and its pi has six digits, so  *)
(* that writing it again does not change it.                               *)
(***************************************************************************)
EXTENDS LynxConfig, TLAPS

\* A document that holds every option.
Complete(p, q, e, rest) ==
    [option |-> [port |-> {p}, pi |-> {q}, env |-> {e}], other |-> rest]

Documents ==
    [option : [port : Optional(Nat), pi : Optional(Nat), env : Optional(EnvValue)],
     other : BOOLEAN]

\* A port that was given has passed the check.
PortIsGood(p) == p = 0 \/ p \in PortRange

TInv ==
    /\ phase \in {"idle", "loaded", "writing", "refused"}
    /\ file \in [Files -> Optional(Documents)]
    /\ from \in Files /\ target \in Files
    /\ given \in Choices
    /\ origin \in [Files -> SUBSET Documents]

\* What a run that has its options would write.
RootInv ==
    phase \in {"loaded", "writing"} =>
        \E p, q \in Nat, e \in EnvValue, rest \in BOOLEAN :
            PortIsGood(p) /\ root = Complete(p, q, e, rest)

\* A file that was written is what its document looks like when formatted.
SavedInv ==
    \A n \in Files : \A o \in origin[n] :
        \E p, q \in Nat, e \in EnvValue, rest \in BOOLEAN :
            /\ PortIsGood(p) /\ o = Complete(p, q, e, rest)
            /\ file[n] = {Complete(p, SixDigits(q), e, rest)}

\* What a run without options read from such a file it would write again, or
\* was refused for the port.
ReadInv ==
    given = Nothing /\ origin[from] # None =>
        /\ phase \in {"loaded", "writing"} => file[from] = {Formatted(root)}
        /\ phase = "refused" => \A o \in origin[from] : o.option.port = {0}

IInv == TInv /\ RootInv /\ SavedInv /\ ReadInv

-----------------------------------------------------------------------------
(* The conversions.                                                         *)

\* What the proofs need of the assumption.
LEMMA Assumed ==
    /\ PortValue \subseteq Nat /\ PiValue \subseteq Nat
    /\ Unset \in EnvValue /\ EnvValue \subseteq STRING
    /\ MaxFile \in Nat
<1>1. OneToTen \subseteq Nat
  BY DEF OneToTen
<1> QED
  BY <1>1, ConfigAssumption

LEMMA SixDigitsStay ==
    ASSUME NEW q \in Nat
    PROVE  SixDigits(q) \in Nat /\ SixDigits(SixDigits(q)) = SixDigits(q)
<1>1. PICK m \in Nat : m = (q + 5) \div 10
  OBVIOUS
<1>2. (m * 10 + 5) \div 10 = m
  OBVIOUS
<1> QED
  BY <1>1, <1>2 DEF SixDigits

LEMMA TheOne ==
    ASSUME NEW v
    PROVE  The({v}) = v
BY DEF The

LEMMA CompleteIsDocument ==
    ASSUME NEW p \in Nat, NEW q \in Nat, NEW e \in EnvValue, NEW rest \in BOOLEAN
    PROVE  Complete(p, q, e, rest) \in Documents
<1>1. {p} \in Optional(Nat) /\ {q} \in Optional(Nat) /\ {e} \in Optional(EnvValue)
  BY DEF Optional
<1> QED
  BY <1>1 DEF Complete, Documents

LEMMA FormattedComplete ==
    ASSUME NEW p, NEW q, NEW e, NEW rest
    PROVE  Formatted(Complete(p, q, e, rest)) = Complete(p, SixDigits(q), e, rest)
<1>1. PICK doc :
        doc = [option |-> [port |-> {p}, pi |-> {q}, env |-> {e}], other |-> rest]
  OBVIOUS
<1>2. doc = Complete(p, q, e, rest)
  BY <1>1 DEF Complete
<1>3. Formatted(doc)
        = [doc EXCEPT !.option = [doc.option EXCEPT !.pi = {SixDigits(The(doc.option.pi))}]]
  BY DEF Formatted
<1>4. The(doc.option.pi) = q
  BY <1>1, TheOne
<1>5. PICK r : r = SixDigits(q)
  OBVIOUS
<1>6. Formatted(doc) = [doc EXCEPT !.option = [doc.option EXCEPT !.pi = {r}]]
  BY <1>3, <1>4, <1>5
<1>7. Formatted(doc) = [option |-> [port |-> {p}, pi |-> {r}, env |-> {e}], other |-> rest]
  BY <1>1, <1>6
<1> QED
  BY <1>2, <1>5, <1>7 DEF Complete

LEMMA OptionIs == Option = {"port", "pi", "env"}
BY DEF Option, Default

LEMMA OverrideCompletes ==
    ASSUME NEW doc \in Documents, NEW d
    PROVE  Override(doc, d) = Complete(d.port, d.pi, d.env, doc.other)
<1>1. PICK options : options = [k \in Option |-> {d[k]}]
  OBVIOUS
<1>2. options = [port |-> {d.port}, pi |-> {d.pi}, env |-> {d.env}]
  BY <1>1, OptionIs
<1>3. doc = [option |-> doc.option, other |-> doc.other]
  BY DEF Documents
<1>4. Override(doc, d) = [doc EXCEPT !.option = options]
  BY <1>1 DEF Override
<1>5. Override(doc, d) = [option |-> options, other |-> doc.other]
  BY <1>3, <1>4
<1> QED
  BY <1>2, <1>5 DEF Complete

LEMMA SettingIs ==
    ASSUME NEW cmd, NEW doc, NEW envvar, NEW k
    PROVE  Setting(cmd, doc, envvar, k) =
             IF cmd[k] # None THEN cmd[k]
             ELSE IF doc.option[k] # None THEN doc.option[k]
             ELSE IF k = "env" /\ envvar # Unset THEN {envvar} ELSE None
BY DEF Setting

LEMMA ParsedIs ==
    ASSUME NEW cmd, NEW doc, NEW envvar, NEW d, d = Parsed(cmd, doc, envvar)
    PROVE  /\ d.port = OrElse(Setting(cmd, doc, envvar, "port"), 0)
           /\ d.pi = OrElse(Setting(cmd, doc, envvar, "pi"), 3141500)
           /\ d.env = OrElse(Setting(cmd, doc, envvar, "env"), Unset)
<1>1. PICK default : default = Default
  OBVIOUS
<1>2. default["port"] = 0 /\ default["pi"] = 3141500 /\ default["env"] = Unset
  BY <1>1 DEF Default
<1>3. d = [k \in {"port", "pi", "env"} |-> OrElse(Setting(cmd, doc, envvar, k), default[k])]
  BY <1>1, OptionIs DEF Parsed
<1>4. /\ d["port"] = OrElse(Setting(cmd, doc, envvar, "port"), default["port"])
      /\ d["pi"] = OrElse(Setting(cmd, doc, envvar, "pi"), default["pi"])
      /\ d["env"] = OrElse(Setting(cmd, doc, envvar, "env"), default["env"])
  BY <1>3
<1> QED
  BY <1>2, <1>4

\* What a run gets from its sources.
LEMMA ParsedValues ==
    ASSUME NEW cmd \in Choices, NEW doc \in Documents, NEW envvar \in EnvValue,
           NEW d, d = Parsed(cmd, doc, envvar)
    PROVE  /\ d.port \in Nat /\ d.pi \in Nat /\ d.env \in EnvValue
           /\ PortAccepted(cmd, doc, envvar) => PortIsGood(d.port)
<1>1. cmd.port \in Optional(PortValue) /\ cmd.pi \in Optional(PiValue) /\ cmd.env \in Optional(EnvValue)
  BY DEF Choices
<1>2. /\ doc.option.port \in Optional(Nat) /\ doc.option.pi \in Optional(Nat)
      /\ doc.option.env \in Optional(EnvValue)
  BY DEF Documents
<1>3. \A x : /\ x \in Optional(PortValue) => x \in Optional(Nat)
             /\ x \in Optional(PiValue) => x \in Optional(Nat)
  BY Assumed DEF Optional
<1>4. PICK port, pi, env :
        /\ port = Setting(cmd, doc, envvar, "port") /\ pi = Setting(cmd, doc, envvar, "pi")
        /\ env = Setting(cmd, doc, envvar, "env")
  OBVIOUS
<1>5. port \in {cmd.port, doc.option.port, None}
  BY <1>4, SettingIs
<1>6. pi \in {cmd.pi, doc.option.pi, None}
  BY <1>4, SettingIs
<1>7. env \in {cmd.env, doc.option.env, {envvar}, None}
  BY <1>4, SettingIs
<1>8. port \in Optional(Nat) /\ pi \in Optional(Nat)
  BY <1>1, <1>2, <1>3, <1>5, <1>6 DEF Optional
<1>9. env \in Optional(EnvValue)
  BY <1>1, <1>2, <1>7 DEF Optional
<1>10. d.port = OrElse(port, 0) /\ d.pi = OrElse(pi, 3141500) /\ d.env = OrElse(env, Unset)
  BY <1>4, ParsedIs
<1>11. ASSUME NEW S, NEW x \in Optional(S), NEW default
       PROVE  \/ x = None /\ OrElse(x, default) = default
              \/ \E v \in S : x = {v} /\ OrElse(x, default) = v
  BY <1>11, TheOne DEF Optional, OrElse, None
<1>12. (port = None /\ d.port = 0) \/ \E v \in Nat : port = {v} /\ d.port = v
  BY <1>8, <1>10, <1>11
<1>13. d.pi \in Nat
  BY <1>8, <1>10, <1>11
<1>14. d.env \in EnvValue
  BY <1>9, <1>10, <1>11, Assumed
<1>15. ASSUME PortAccepted(cmd, doc, envvar) PROVE PortIsGood(d.port)
  <2>1. port \subseteq PortRange
    BY <1>4, <1>15 DEF PortAccepted
  <2>2. CASE port = None /\ d.port = 0
    BY <2>2 DEF PortIsGood
  <2>3. ASSUME NEW v \in Nat, port = {v}, d.port = v PROVE PortIsGood(d.port)
    BY <2>1, <2>3 DEF PortIsGood
  <2> QED
    BY <1>12, <2>2, <2>3
<1> QED
  BY <1>12, <1>13, <1>14, <1>15

\* A document that holds every option gives them all to a run without options.
LEMMA ParsedComplete ==
    ASSUME NEW p, NEW q, NEW e, NEW rest, NEW envvar,
           NEW doc, doc = Complete(p, q, e, rest), NEW d, d = Parsed(Nothing, doc, envvar)
    PROVE  /\ d.port = p /\ d.pi = q /\ d.env = e
           /\ PortAccepted(Nothing, doc, envvar) <=> p \in PortRange
<1>1. PICK nothing : nothing = Nothing
  OBVIOUS
<1>2. nothing["port"] = None /\ nothing["pi"] = None /\ nothing["env"] = None
  BY <1>1 DEF Nothing
<1>3. doc.option["port"] = {p} /\ doc.option["pi"] = {q} /\ doc.option["env"] = {e}
  BY DEF Complete
<1>4. {p} # None /\ {q} # None /\ {e} # None
  BY DEF None
<1>5. /\ Setting(nothing, doc, envvar, "port") = {p}
      /\ Setting(nothing, doc, envvar, "pi") = {q}
      /\ Setting(nothing, doc, envvar, "env") = {e}
  BY <1>2, <1>3, <1>4, SettingIs
<1>6. PICK x, y, z : d.port = OrElse({p}, x) /\ d.pi = OrElse({q}, y) /\ d.env = OrElse({e}, z)
  BY <1>1, <1>5, ParsedIs
<1>7. OrElse({p}, x) = p /\ OrElse({q}, y) = q /\ OrElse({e}, z) = e
  BY TheOne DEF OrElse, None
<1>8. d.port = p /\ d.pi = q /\ d.env = e
  BY <1>6, <1>7
<1>9. PortAccepted(Nothing, doc, envvar) <=> {p} \subseteq PortRange
  BY <1>1, <1>5 DEF PortAccepted
<1>10. {p} \subseteq PortRange <=> p \in PortRange
  OBVIOUS
<1> QED
  BY <1>8, <1>9, <1>10

-----------------------------------------------------------------------------
(* The steps.                                                               *)

LEMMA InitInv ==
    ASSUME Init
    PROVE  IInv
<1>1. Nothing \in Choices /\ 0 \in Files
  BY Assumed DEF Nothing, Choices, Optional, None, Files
<1>2. PICK choice \in Choices :
        file = [n \in Files |-> IF n = 0 THEN {[option |-> choice, other |-> TRUE]} ELSE None]
  BY DEF Init
<1>3. [option |-> choice, other |-> TRUE] \in Documents
  BY Assumed DEF Choices, Documents, Optional
<1>4. file \in [Files -> Optional(Documents)]
  BY <1>2, <1>3 DEF Optional
<1>5. TInv
  BY <1>1, <1>4 DEF Init, TInv, None
<1> QED
  BY <1>1, <1>5 DEF Init, IInv, RootInv, SavedInv, ReadInv, None

LEMMA ParseStep ==
    ASSUME IInv, NEW n \in Files, NEW cmd \in Choices, NEW envvar \in EnvValue,
           Parse(n, cmd, envvar)
    PROVE  IInv'
<1>1. UNCHANGED <<file, target, origin>> /\ from' = n /\ given' = cmd
  BY DEF Parse
<1>2. PICK doc \in Documents : file[n] = {doc} /\ The(file[n]) = doc
  <2>1. file[n] \in Optional(Documents) /\ file[n] # {}
    BY DEF IInv, TInv, Parse, None
  <2>2. PICK doc \in Documents : file[n] = {doc}
    BY <2>1 DEF Optional, None
  <2> QED
    BY <2>2, TheOne
<1>3. phase' \in {"loaded", "refused"}
  BY DEF Parse
<1>4. PICK d : d = Parsed(cmd, doc, envvar)
  OBVIOUS
<1>5. phase' = "loaded" => PortAccepted(cmd, doc, envvar) /\ data' = d /\ root' = Override(doc, d)
  BY <1>2, <1>4 DEF Parse
<1>6. phase' = "refused" => ~PortAccepted(cmd, doc, envvar)
  BY <1>2 DEF Parse
<1>7. TInv'
  BY <1>1, <1>3 DEF IInv, TInv
<1>8. RootInv'
  <2>1. ASSUME phase' = "loaded"
        PROVE  /\ root' = Complete(d.port, d.pi, d.env, doc.other) /\ PortIsGood(d.port)
               /\ d.port \in Nat /\ d.pi \in Nat /\ d.env \in EnvValue /\ doc.other \in BOOLEAN
    BY <1>4, <1>5, <2>1, ParsedValues, OverrideCompletes DEF Documents
  <2> QED
    BY <1>3, <2>1 DEF RootInv
<1>9. SavedInv'
  BY <1>1 DEF IInv, SavedInv
<1>10. ReadInv'
  <2> SUFFICES ASSUME cmd = Nothing, NEW o \in origin[n]
               PROVE  /\ phase' = "loaded" => file[n] = {Formatted(root')}
                      /\ phase' = "refused" => \A x \in origin[n] : x.option.port = {0}
    BY <1>1, <1>3 DEF ReadInv, None
  <2>1. ASSUME NEW x \in origin[n]
        PROVE  \E p, q \in Nat, e \in EnvValue, rest \in BOOLEAN :
                 /\ PortIsGood(p) /\ x = Complete(p, q, e, rest)
                 /\ doc = Complete(p, SixDigits(q), e, rest)
    <3>1. PICK p \in Nat, q \in Nat, e \in EnvValue, rest \in BOOLEAN :
            /\ PortIsGood(p) /\ x = Complete(p, q, e, rest)
            /\ file[n] = {Complete(p, SixDigits(q), e, rest)}
      BY DEF IInv, SavedInv
    <3>2. doc = Complete(p, SixDigits(q), e, rest)
      BY <1>2, <3>1
    <3> QED
      BY <3>1, <3>2
  <2>2. PICK p \in Nat, q \in Nat, e \in EnvValue, rest \in BOOLEAN :
          doc = Complete(p, SixDigits(q), e, rest)
    BY <2>1
  <2>3. d.port = p /\ d.pi = SixDigits(q) /\ d.env = e
    <3>1. d = Parsed(Nothing, doc, envvar)
      BY <1>4
    <3> QED
      BY <2>2, <3>1, ParsedComplete
  <2>4. ASSUME phase' = "loaded" PROVE file[n] = {Formatted(root')}
    <3>1. root' = Complete(p, SixDigits(q), e, doc.other)
      BY <1>5, <2>3, <2>4, OverrideCompletes
    <3>2. doc.other = rest
      BY <2>2 DEF Complete
    <3>3. Formatted(root') = Complete(p, SixDigits(SixDigits(q)), e, rest)
      BY <3>1, <3>2, FormattedComplete
    <3>4. Formatted(root') = doc
      BY <2>2, <3>3, SixDigitsStay
    <3> QED
      BY <1>2, <3>4
  <2>5. ASSUME phase' = "refused", NEW x \in origin[n] PROVE x.option.port = {0}
    <3>1. PICK p1 \in Nat, q1 \in Nat, e1 \in EnvValue, rest1 \in BOOLEAN :
            /\ PortIsGood(p1) /\ x = Complete(p1, q1, e1, rest1)
            /\ doc = Complete(p1, SixDigits(q1), e1, rest1)
      BY <2>1
    <3>2. p1 \notin PortRange
      <4>1. ~PortAccepted(Nothing, doc, envvar)
        BY <1>6, <2>5
      <4> QED
        BY <3>1, <4>1, ParsedComplete
    <3>3. p1 = 0
      BY <3>1, <3>2 DEF PortIsGood
    <3> QED
      BY <3>1, <3>3 DEF Complete
  <2> QED
    BY <2>4, <2>5
<1> QED
  BY <1>7, <1>8, <1>9, <1>10 DEF IInv

LEMMA TruncateStep ==
    ASSUME IInv, NEW n \in Files, Truncate(n)
    PROVE  IInv'
<1>1. Empty \in Documents
  BY DEF Empty, Nothing, Documents, Optional, None
<1>2. {Empty} \in Optional(Documents)
  BY <1>1 DEF Optional
<1>3. TInv'
  BY <1>2 DEF IInv, TInv, Truncate, run, None
<1>4. RootInv'
  BY DEF IInv, RootInv, Truncate, run
<1>5. SavedInv'
  <2> SUFFICES ASSUME NEW m \in Files, NEW o \in origin'[m]
               PROVE  \E p, q \in Nat, e \in EnvValue, rest \in BOOLEAN :
                        /\ PortIsGood(p) /\ o = Complete(p, q, e, rest)
                        /\ file'[m] = {Complete(p, SixDigits(q), e, rest)}
    BY DEF SavedInv
  <2>1. m # n /\ origin'[m] = origin[m] /\ file'[m] = file[m]
    BY DEF IInv, TInv, Truncate, None
  <2> QED
    BY <2>1 DEF IInv, SavedInv
<1>6. ReadInv'
  <2>1. from' = from /\ given' = given /\ root' = root /\ phase = "loaded" /\ phase' = "writing"
    BY DEF Truncate, run
  <2>2. CASE n = from
    BY <2>1, <2>2 DEF IInv, TInv, ReadInv, Truncate, None
  <2>3. CASE n # from
    <3>1. origin'[from] = origin[from] /\ file'[from] = file[from]
      BY <2>3 DEF IInv, TInv, Truncate
    <3> QED
      BY <2>1, <3>1 DEF IInv, ReadInv
  <2> QED
    BY <2>2, <2>3
<1> QED
  BY <1>3, <1>4, <1>5, <1>6 DEF IInv

LEMMA WriteStep ==
    ASSUME IInv, Write
    PROVE  IInv'
<1>1. PICK p \in Nat, q \in Nat, e \in EnvValue, rest \in BOOLEAN :
        PortIsGood(p) /\ root = Complete(p, q, e, rest)
  BY DEF IInv, RootInv, Write
<1>2. PICK written \in Documents :
        written = Formatted(root) /\ written = Complete(p, SixDigits(q), e, rest)
  <2>1. Complete(p, SixDigits(q), e, rest) \in Documents
    BY SixDigitsStay, CompleteIsDocument
  <2> QED
    BY <1>1, <2>1, FormattedComplete
<1>3. root \in Documents
  BY <1>1, CompleteIsDocument
<1>4. /\ file' = [file EXCEPT ![target] = {written}]
      /\ origin' = [origin EXCEPT ![target] = {root}]
      /\ from' = from /\ given' = given /\ root' = root
      /\ phase = "writing" /\ phase' = "loaded" /\ target' = 0
  BY <1>2 DEF Write, run
<1>5. {written} \in Optional(Documents) /\ 0 \in Files
  BY Assumed DEF Optional, Files
<1>6. TInv'
  BY <1>3, <1>4, <1>5 DEF IInv, TInv
<1>7. RootInv'
  BY <1>1, <1>4 DEF RootInv
<1>8. SavedInv'
  <2> SUFFICES ASSUME NEW m \in Files, NEW o \in origin'[m]
               PROVE  \E p1, q1 \in Nat, e1 \in EnvValue, rest1 \in BOOLEAN :
                        /\ PortIsGood(p1) /\ o = Complete(p1, q1, e1, rest1)
                        /\ file'[m] = {Complete(p1, SixDigits(q1), e1, rest1)}
    BY DEF SavedInv
  <2>1. CASE m = target
    <3>1. o = Complete(p, q, e, rest) /\ file'[m] = {Complete(p, SixDigits(q), e, rest)}
      BY <1>1, <1>2, <1>4, <2>1 DEF IInv, TInv
    <3> QED
      BY <1>1, <3>1
  <2>2. CASE m # target
    <3>1. origin'[m] = origin[m] /\ file'[m] = file[m]
      BY <1>4, <2>2 DEF IInv, TInv
    <3> QED
      BY <3>1 DEF IInv, SavedInv
  <2> QED
    BY <2>1, <2>2
<1>9. ReadInv'
  <2>1. CASE target = from
    <3>1. file'[from] = {Formatted(root)}
      BY <1>2, <1>4, <2>1 DEF IInv, TInv
    <3> QED
      BY <1>4, <3>1 DEF ReadInv
  <2>2. CASE target # from
    <3>1. origin'[from] = origin[from] /\ file'[from] = file[from]
      BY <1>4, <2>2 DEF IInv, TInv
    <3> QED
      BY <1>4, <3>1 DEF IInv, ReadInv
  <2> QED
    BY <2>1, <2>2
<1> QED
  BY <1>6, <1>7, <1>8, <1>9 DEF IInv

LEMMA EndStep ==
    ASSUME IInv, End
    PROVE  IInv'
<1>1. Nothing \in Choices /\ 0 \in Files
  BY Assumed DEF Nothing, Choices, Optional, None, Files
<1>2. TInv'
  BY <1>1 DEF IInv, TInv, End
<1> QED
  BY <1>2 DEF IInv, RootInv, SavedInv, ReadInv, End

LEMMA NextInv ==
    ASSUME IInv, [Next]_vars
    PROVE  IInv'
<1>1. ASSUME NEW n \in Files, NEW cmd \in Choices, NEW envvar \in EnvValue, Parse(n, cmd, envvar)
      PROVE  IInv'
  BY <1>1, ParseStep
<1>2. from \in Files /\ (from < MaxFile => from + 1 \in Files)
  BY Assumed DEF IInv, TInv, Files
<1>3. CASE WriteConfig
  BY <1>2, <1>3, TruncateStep DEF WriteConfig
<1>4. CASE WriteConfigAs
  BY <1>2, <1>4, TruncateStep DEF WriteConfigAs
<1>5. CASE SafeWriteConfigAs
  BY <1>2, <1>5, TruncateStep DEF SafeWriteConfigAs
<1>6. CASE Write
  BY <1>6, WriteStep
<1>7. CASE End
  BY <1>7, EndStep
<1>8. CASE UNCHANGED vars
  BY <1>8 DEF vars, IInv, TInv, RootInv, SavedInv, ReadInv
<1> QED
  BY <1>1, <1>3, <1>4, <1>5, <1>6, <1>7, <1>8 DEF Next

LEMMA InvHolds == Spec => []IInv
BY InitInv, NextInv, PTL DEF Spec

\* What is saved and read again gives the data it was written from, pi to six
\* digits, after any runs, edits and crashes.
THEOREM SavedConfigIsRead == Spec => []SavedFilesAgree
<1>1. IInv => SavedFilesAgree
  <2> SUFFICES ASSUME IInv, NEW n \in Files, NEW envvar \in EnvValue, NEW o \in origin[n],
                      NEW d, d = Parsed(Nothing, The(file[n]), envvar)
               PROVE  /\ d.port \in o.option.port /\ d.env \in o.option.env
                      /\ d.pi = SixDigits(The(o.option.pi))
                      /\ The(file[n]).other = o.other
    BY DEF SavedFilesAgree
  <2>1. PICK p \in Nat, q \in Nat, e \in EnvValue, rest \in BOOLEAN :
          /\ o = Complete(p, q, e, rest)
          /\ file[n] = {Complete(p, SixDigits(q), e, rest)}
    BY DEF IInv, SavedInv
  <2>2. The(file[n]) = Complete(p, SixDigits(q), e, rest)
    BY <2>1, TheOne
  <2>3. d.port = p /\ d.pi = SixDigits(q) /\ d.env = e
    <3>1. PICK doc : doc = The(file[n]) /\ doc = Complete(p, SixDigits(q), e, rest)
      BY <2>2
    <3> QED
      BY <3>1, ParsedComplete
  <2>4. /\ o.option.port = {p} /\ o.option.env = {e} /\ o.option.pi = {q}
        /\ o.other = rest /\ The(file[n]).other = rest
    BY <2>1, <2>2 DEF Complete
  <2> QED
    BY <2>3, <2>4, TheOne
<1> QED
  BY <1>1, InvHolds, PTL

\* A run without options that read a saved file would save the same document.
THEOREM SavingAgainIsTheSame == Spec => []SavingIsStable
<1>1. IInv => SavingIsStable
  BY DEF IInv, ReadInv, SavingIsStable
<1> QED
  BY <1>1, InvHolds, PTL

\* A saved file is refused for the default port only.
THEOREM CheckedPortsPassAgain == Spec => []OnlyTheDefaultPortIsRefused
<1>1. IInv => OnlyTheDefaultPortIsRefused
  BY DEF IInv, ReadInv, OnlyTheDefaultPortIsRefused, Default, None
<1> QED
  BY <1>1, InvHolds, PTL

=============================================================================
