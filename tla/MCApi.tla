------------------------------- MODULE MCApi -------------------------------
(* What the API process and voice commands write: bindings, language          *)
(* configurations, accounts and devices; and what the web page makes of a     *)
(* session: its requests, settings and transcript.  A behaviour is one of a   *)
(* single part, the others rest.                                              *)
EXTENDS LanguageConfigs, LanguageRules, Accounts, VoicePage,
        VoiceConfig, VoiceScreen, Devices

VARIABLE part

restVars == <<part, sample, deviceVars>>
webVars == <<pageVars, settingsVars, screenVars>>
apiVars == <<restVars, bindingVars, configVars, accountVars, webVars>>

\* One phone has an account from before the keyed digest, the others have none.
OneLegacy ==
    [r \in Registered |-> IF r # CHOOSE o \in Registered : TRUE THEN Unwritten
                         ELSE [phone |-> CHOOSE p \in Phones : TRUE, digest |-> "legacy"]]

ApiInit ==
    /\ part \in
        {"binding", "configs", "rules", "accounts", "page", "settings", "screen", "devices", "family"}
    /\ part # "rules" => sample = CHOOSE c \in Configurations : TRUE
    /\ registered = OneLegacy
    /\ AccountInit
    /\ BindingInit /\ ConfigInit /\ RulesInit
    /\ PageInit /\ SettingsInit /\ ScreenInit /\ DevicesInit

\* One request at a time changes targets beside the language requests.
OneRetargets ==
    /\ breaks' = 0
    /\ UNCHANGED <<challenge, preference["email"]>>
    /\ LET retargeting == CHOOSE b \in Binders : TRUE IN
          \A b \in Binders \ {retargeting} : UNCHANGED binder[b]

OwnCode == CHOOSE f \in [Gadgets -> PairCodes] : \A g, h \in Gadgets : f[g] = f[h] => g = h

\* Devices are paired, sign nonces and are revoked; or those of one account, each
\* paired by a code of its own, create sessions beside the account's page.
Signs == \A c \in DeviceCalls : call'[c].at # "create"
OneFamily ==
    /\ \A k \in PairCodes : pairing'[k].account \in {Noone, CHOOSE o \in Owners : TRUE}
    /\ \A c \in DeviceCalls :
          /\ call'[c].account \in {Noone, CHOOSE o \in Owners : TRUE}
          /\ call'[c].at = "bind" => call'[c].arg = OwnCode[call'[c].gadget]

\* The rules are functions: their part consists of its initial states.
ApiNext ==
    \/ /\ part = "binding" /\ BindingNext
       /\ UNCHANGED <<restVars, configVars, accountVars, webVars>>
    \/ /\ part = "configs" /\ ConfigNext /\ OneRetargets
       /\ UNCHANGED <<restVars, accountVars, webVars>>
    \/ /\ part = "accounts" /\ AccountNext
       /\ UNCHANGED <<restVars, bindingVars, configVars, webVars>>
    \/ /\ part = "page" /\ PageNext
       /\ UNCHANGED <<restVars, bindingVars, configVars, accountVars, settingsVars, screenVars>>
    \/ /\ part = "settings" /\ SettingsNext
       /\ UNCHANGED <<restVars, bindingVars, configVars, accountVars, pageVars, screenVars>>
    \/ /\ part = "screen" /\ ScreenNext
       /\ UNCHANGED <<restVars, bindingVars, configVars, accountVars, pageVars, settingsVars>>
    \/ /\ part \in {"devices", "family"} /\ DevicesNext
       /\ part = "devices" => Signs
       /\ part = "family" => OneFamily
       /\ UNCHANGED <<part, sample, bindingVars, configVars, accountVars, webVars>>

ApiSpec == ApiInit /\ [][ApiNext]_apiVars
=============================================================================
