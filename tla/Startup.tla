------------------------------- MODULE Startup -------------------------------
(***************************************************************************)
(* From the environment to a running process: Settings, validated when the *)
(* module is imported; the command lines of the daemons and the one-shot   *)
(* job, which override some of them; and what the API and the workers      *)
(* require when they are built.                                            *)
(***************************************************************************)
EXTENDS Integers, FiniteSets, RetryBackoff

CONSTANTS
  Cap,        \* the upper limit of every number that has one, at its scale
  MaxSet,     \* bound: variables that differ from the deployment's example
  MaxDelays   \* bound: retries for which the delay is compared

ASSUME StartupAssumption == Cap \in Nat \ {0} /\ MaxSet \in Nat /\ MaxDelays \in Nat

VARIABLES
  setupAt,      \* how far the process has come
  environment,  \* the environment variables
  changed,      \* those that differ from the example
  loaded,       \* the Settings object
  program,      \* which process is started
  args          \* its command line, with defaults filled in

setupVars == <<setupAt, environment, changed, loaded, program, args>>

-----------------------------------------------------------------------------
(* The variables and their values.  "A" and "B" are strong secrets, "paddedA"  *)
(* is "A" with blanks around it, "blank" is nothing but blanks; numbers stand   *)
(* on the scale of Cap.                                                        *)

Counts == {"request_max_bytes", "rate_limit_per_minute", "rate_limit_per_hour",
           "crm_retry_base_seconds", "crm_retry_max_seconds",
           "crm_retry_claim_timeout_seconds", "crm_retry_poll_seconds",
           "alert_thresholds", "alert_cooldown_seconds"}
Bounded == {"crm_retry_max_attempts", "crm_retry_batch_size", "webhook_timeouts",
            "alert_high_error_rate_threshold"}
Urls == {"crm_webhook_url", "alert_webhook_url"}
SigningSecrets == {"crm_webhook_secret", "alert_webhook_secret"}
Tokens == {"admin_token", "queue_metrics_token", "hubspot_access_token"}
Optional == Urls \cup SigningSecrets \cup Tokens
Flags == {"production", "debug", "hubspot", "hubspot_property_map"}
Checked == {"required", "log_level", "trusted_proxy_cidrs", "property_names"}
Texts == Checked \cup {"jwt_secret", "allowed_origins"}
Variables == Counts \cup Bounded \cup Optional \cup Flags \cup Texts

Unset == "unset"
Secrets == {"A", "paddedA", "B", "weak", "blank", Unset}
Values(v) == CASE v \in Counts \cup Bounded -> 0..(Cap + 1)
               [] v \in Urls -> {"https", "http", "blank", Unset}
               [] v \in SigningSecrets \cup Tokens -> Secrets
               [] v \in Flags -> BOOLEAN
               [] v = "jwt_secret" -> {"good", "insecure", "invalid"}
               [] v = "allowed_origins" -> {"good", "insecure"}
               [] v \in Checked -> {"good", "invalid"}

Defaults ==
  [v \in Variables |-> CASE v \in Counts \cup Bounded -> Cap
                         [] v \in Optional -> Unset
                         [] v \in Flags -> FALSE
                         [] v \in Texts -> "good"]
Webhook == [Defaults EXCEPT !["crm_webhook_url"] = "https", !["crm_webhook_secret"] = "A"]
HubSpot == [Defaults EXCEPT !["hubspot"] = TRUE, !["hubspot_access_token"] = "A"]
Production == [Webhook EXCEPT !["production"] = TRUE, !["admin_token"] = "A",
                              !["queue_metrics_token"] = "B"]
Examples == {Defaults, Webhook, HubSpot, Production}

NoSettings == Defaults
Arguments == [limit : 0..(Cap + 1), base : 0..(Cap + 1), max : 0..(Cap + 1)]
NoArguments == [limit |-> 0, base |-> 0, max |-> 0]

SetupTypeOK ==
  /\ setupAt \in {"setting", "accepted", "running", "stopped"}
  /\ DOMAIN environment = Variables /\ DOMAIN loaded = Variables
  /\ \A v \in Variables : environment[v] \in Values(v) /\ loaded[v] \in Values(v)
  /\ changed \in SUBSET Variables
  /\ program \in {"none", "api", "classification", "oneshot", "crm_retry"}
  /\ args \in Arguments

SetupInit ==
  /\ setupAt = "setting" /\ environment = Defaults /\ changed = {}
  /\ loaded = NoSettings /\ program = "none" /\ args = NoArguments

\* The operator starts from an example ...
ChooseExample(example) ==
  /\ setupAt = "setting" /\ changed = {}
  /\ environment' = example
  /\ UNCHANGED <<setupAt, changed, loaded, program, args>>

\* ... and changes some variables.
SetVariable(v, value) ==
  /\ setupAt = "setting" /\ v \notin changed /\ Cardinality(changed) < MaxSet
  /\ environment[v] # value
  /\ environment' = [environment EXCEPT ![v] = value]
  /\ changed' = changed \cup {v}
  /\ UNCHANGED <<setupAt, loaded, program, args>>

-----------------------------------------------------------------------------
(* Settings.                                                               *)

\* optional_token_must_not_be_blank
Cleaned(value) == CASE value = "blank" -> Unset [] value = "paddedA" -> "A" [] OTHER -> value

Strip(env) == [v \in Variables |-> IF v \in Optional THEN Cleaned(env[v]) ELSE env[v]]

Given(s, v) == s[v] # Unset
Together(s, v, w) == Given(s, v) <=> Given(s, w)

\* The field constraints and field validators.
FieldsValid(s) ==
  /\ \A v \in Counts : s[v] >= 1
  /\ \A v \in Bounded : s[v] \in 1..Cap
  /\ \A v \in Urls : s[v] # "http"
  /\ \A v \in SigningSecrets : s[v] # "weak"
  /\ \A v \in Texts : s[v] # "invalid"

ProviderValid(s) ==
  IF s["hubspot"]
  THEN /\ Given(s, "hubspot_access_token")
       /\ ~Given(s, "crm_webhook_url") /\ ~Given(s, "crm_webhook_secret")
  ELSE /\ Together(s, "crm_webhook_url", "crm_webhook_secret")
       /\ ~Given(s, "hubspot_access_token") /\ ~s["hubspot_property_map"]

\* production_settings_must_be_safe
SettingsValid(s) ==
  /\ Given(s, "admin_token") => s["admin_token"] # s["queue_metrics_token"]
  /\ ProviderValid(s)
  /\ s["crm_retry_max_seconds"] >= s["crm_retry_base_seconds"]
  /\ Together(s, "alert_webhook_url", "alert_webhook_secret")
  /\ Given(s, "alert_webhook_secret") => s["alert_webhook_secret"] # s["crm_webhook_secret"]
  /\ s["production"] =>
       /\ ~s["debug"]
       /\ s["jwt_secret"] = "good" /\ s["allowed_origins"] = "good"
       /\ {s["queue_metrics_token"], s["admin_token"]} \cap {Unset, "weak"} = {}

\* get_settings(): a process whose settings are not valid does not start.
LoadSettings ==
  /\ setupAt = "setting"
  /\ LET s == Strip(environment) IN
     IF FieldsValid(s) /\ SettingsValid(s)
     THEN setupAt' = "accepted" /\ loaded' = s
     ELSE setupAt' = "stopped" /\ UNCHANGED loaded
  /\ UNCHANGED <<environment, changed, program, args>>

-----------------------------------------------------------------------------
(* The processes.                                                          *)

\* _positive_int and _bounded_limit parse an argument.
Positive(given) == given >= 1
Limit(given) == Positive(given) /\ given <= Cap

\* The constructors of the limiter and of the body limit.
ApiBuilds(s) ==
  \A v \in {"request_max_bytes", "rate_limit_per_minute", "rate_limit_per_hour"} : s[v] >= 1

\* create_app
StartApi ==
  /\ setupAt = "accepted"
  /\ setupAt' = IF ApiBuilds(loaded) THEN "running" ELSE "stopped"
  /\ program' = "api"
  /\ UNCHANGED <<environment, changed, loaded, args>>

\* The daemon and the one-shot job have no settings behind their arguments; the
\* job's dry run reads the leads and needs no model.
StartClassification(which) ==
  /\ setupAt = "accepted"
  /\ \E limit \in 0..(Cap + 1) :
       IF Limit(limit)
       THEN setupAt' = "running" /\ args' = [args EXCEPT !.limit = limit]
       ELSE setupAt' = "stopped" /\ UNCHANGED args
  /\ program' = which
  /\ UNCHANGED <<environment, changed, loaded>>

\* Mutated form: the two ends are not compared.
AnyRange(a) == TRUE

\* settings_from_args
RangeValid(a) == a.max >= a.base

\* configured_crm_dispatcher
DispatcherConfigured(s) ==
  IF s["hubspot"] THEN Given(s, "hubspot_access_token")
  ELSE Given(s, "crm_webhook_url") /\ Given(s, "crm_webhook_secret")

\* An argument that is not given is taken from the settings, unparsed.
NotGiven == -1
StartCrmRetry ==
  /\ setupAt = "accepted"
  /\ \E limit, base, max \in NotGiven..(Cap + 1) :
       LET or(given, v) == IF given = NotGiven THEN loaded[v] ELSE given
           a == [limit |-> or(limit, "crm_retry_batch_size"),
                 base |-> or(base, "crm_retry_base_seconds"),
                 max |-> or(max, "crm_retry_max_seconds")]
       IN IF /\ limit = NotGiven \/ Limit(limit)
             /\ base = NotGiven \/ Positive(base)
             /\ max = NotGiven \/ Positive(max)
             /\ RangeValid(a)
             /\ DispatcherConfigured(loaded)
          THEN setupAt' = "running" /\ args' = a
          ELSE setupAt' = "stopped" /\ UNCHANGED args
  /\ program' = "crm_retry"
  /\ UNCHANGED <<environment, changed, loaded>>

SetupNext ==
  \/ \E example \in Examples : ChooseExample(example)
  \/ \E v \in Variables : \E value \in Values(v) : SetVariable(v, value)
  \/ LoadSettings
  \/ StartApi \/ StartCrmRetry
  \/ \E which \in {"classification", "oneshot"} : StartClassification(which)

SetupSpec == SetupInit /\ [][SetupNext]_setupVars

-----------------------------------------------------------------------------
(* Properties.                                                             *)

Lower(a, b) == IF a < b THEN a ELSE b

\* base * 2^n
Doubled(n, base) ==
  LET doubled[i \in 0..n] == IF i = 0 THEN base ELSE 2 * doubled[i - 1] IN doubled[n]

\* exponential_retry_delay accepts its arguments, and its loop is the doubling it
\* stands for: no count is off by one, and the cap is kept.
BackoffUsable(base, max) ==
  /\ base >= 1 /\ max >= base
  /\ \A n \in 1..MaxDelays : RetryDelay(n, base, max) = Lower(Doubled(n, base), max)

\* The two pairs of secrets that Settings compares differ, blanks around them or not:
\* the two tokens of the API, and the secrets of the two webhooks.  Nothing compares
\* any other two, or JWT_SECRET with any of them.
ComparedPairsDiffer(env) ==
  \A pair \in {{"admin_token", "queue_metrics_token"},
               {"crm_webhook_secret", "alert_webhook_secret"}} :
    \A v, w \in pair : v # w /\ env[v] \in {"A", "paddedA"} => env[w] \notin {"A", "paddedA"}

\* What Settings and the command line have let through never meets a precondition of
\* the parts it is for: the limiter, the body limit, both batch limits, the backoff
\* and the CRM dispatcher, whichever of them an argument has replaced; and the
\* pairs of secrets that Settings compares differ.
AcceptedMeansUsable ==
  /\ program = "api" => setupAt = "running"
  /\ setupAt = "running" =>
       /\ ComparedPairsDiffer(environment)
       /\ program \in {"classification", "oneshot"} => args.limit \in 1..Cap
       /\ program = "crm_retry" =>
            /\ args.limit \in 1..Cap
            /\ BackoffUsable(args.base, args.max)
            /\ loaded["hubspot"] => loaded["crm_webhook_secret"] = Unset
            /\ ~loaded["hubspot"] => loaded["crm_webhook_url"] = "https"
=============================================================================
