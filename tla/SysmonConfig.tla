---------------------------- MODULE SysmonConfig ----------------------------
(***************************************************************************)
(* What becomes of the configuration before sysmon runs.  Load decodes it  *)
(* and has Validate check it and complete it in place; app.New has it      *)
(* validated once more, as completed, and settles the name of the host.    *)
(***************************************************************************)
EXTENDS ConfigFile

CONSTANTS
    SysmonFiles, \* the files sysmon may be given
    Lookups      \* what os.Hostname may return: [ok, name]

\* The configuration as it is written in a file.
Url == [text : STRING, pad : BOOLEAN, scheme : STRING, authority : BOOLEAN]
Content ==
    [url : Url, job : Text, interval : Written, timeout : Written, host : Text,
     perCore : {"absent", "true", "false"}, services : Seq(Text)]

ASSUME SysmonAssumption ==
    /\ \A f \in SysmonFiles : f.content \in Content
    /\ \A l \in Lookups : l \in [ok : BOOLEAN, name : Text]

VARIABLES
    given,   \* the file (history)
    reached, \* "file", "loaded", "built", or "rejected" by Load, "refused" by New
    config,  \* *config.Config
    host     \* App.host

sysmonVars == <<given, reached, config, host>>

AsDecoded(c) ==
    [c EXCEPT !.interval = DurationOf(@), !.timeout = DurationOf(@),
              !.perCore = @ # "false"] \* it is true unless the file says otherwise

DefaultJob == [text |-> "sysmon", pad |-> FALSE]

\* What Validate makes of a configuration, and the rules it applies meanwhile.
Tidied(c) ==
    [c EXCEPT !.url = Trim(@), !.host = Trim(@),
              !.job = IF Blank(@) THEN DefaultJob ELSE Trim(@),
              !.services = [i \in DOMAIN @ |-> Trim(@[i])]]

\* Variant of ServicesOK: names are compared as they are written.
ServicesOKAsWritten(c) ==
    /\ \A i \in DOMAIN c.services : ~Blank(c.services[i])
    /\ \A i, j \in DOMAIN c.services : c.services[i] = c.services[j] => i = j

ServicesOK(c) ==
    /\ \A i \in DOMAIN c.services : ~Blank(c.services[i])
    /\ \A i, j \in DOMAIN c.services : Trim(c.services[i]) = Trim(c.services[j]) => i = j

Valid(c) ==
    /\ ~Blank(c.url) /\ c.url.scheme = "http" /\ c.url.authority
    /\ c.interval > 0 /\ c.timeout > 0
    /\ ServicesOK(c)

Load ==
    /\ reached = "file"
    /\ IF /\ FileOK(given)
          /\ DurationOK(given.content.interval) /\ DurationOK(given.content.timeout)
          /\ Valid(AsDecoded(given.content))
       THEN reached' = "loaded" /\ config' = Tidied(AsDecoded(given.content))
       ELSE reached' = "rejected" /\ UNCHANGED config
    /\ UNCHANGED <<given, host>>

\* ResolveHost asks for the name of the machine only if no other is given.
ResolvedOK(name, lookup) == ~Blank(name) \/ lookup.ok
ResolveHost(name, lookup) == IF Blank(name) THEN lookup.name ELSE name

New(lookup) ==
    /\ reached = "loaded"
    /\ IF Valid(config) /\ ResolvedOK(Tidied(config).host, lookup)
       THEN /\ reached' = "built"
            /\ config' = Tidied(config)
            /\ host' = ResolveHost(config'.host, lookup)
       ELSE reached' = "refused" /\ UNCHANGED <<config, host>>
    /\ UNCHANGED given

SysmonInit ==
    /\ given \in SysmonFiles
    /\ reached = "file"
    /\ config = given.content
    /\ host = [text |-> "", pad |-> FALSE]

SysmonNext == Load \/ \E lookup \in Lookups : New(lookup)

SysmonSpec == SysmonInit /\ [][SysmonNext]_sysmonVars

-----------------------------------------------------------------------------
\* What Load accepts and completes, New accepts and leaves alone: it fails for
\* want of a name of the host only.  The App it makes has what Run relies on (a
\* ticker does not take an interval of zero, and a unit is reported under a name
\* of its own), as the file says it but for padding and defaults.
SysmonReady ==
    /\ reached = "refused" => Blank(given.content.host)
    /\ reached = "built" =>
          /\ config.interval > 0 /\ config.timeout > 0
          /\ ~Blank(config.job) /\ config.url.scheme = "http"
          /\ \A i, j \in DOMAIN config.services : config.services[i] = config.services[j] => i = j
          /\ config = Tidied(AsDecoded(given.content))
          /\ host \in IF Blank(given.content.host) THEN {l.name : l \in {m \in Lookups : m.ok}}
                      ELSE {Trim(given.content.host)}

\* What makes it inductive: what Load leaves for New.
SysmonIInv ==
    /\ given \in SysmonFiles
    /\ reached \in {"file", "loaded", "built", "rejected", "refused"}
    /\ reached \in {"loaded", "built"} =>
          /\ Valid(AsDecoded(given.content))
          /\ config = Tidied(AsDecoded(given.content))
    /\ SysmonReady
=============================================================================
