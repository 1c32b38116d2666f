------------------------------- MODULE Settings -------------------------------
(***************************************************************************)
(* What Settings() of src/ip_country_api/config.py makes of the values of  *)
(* a release, and which of them the chart gives to whom.  A text is the    *)
(* class the validators put it in.                                         *)
(***************************************************************************)

Values ==
    [environment : {"production", "other"},
     database    : {"", "postgresql", "other"},   \* by the scheme of the URL
     provider    : {"ipinfo", "fake", "other"},
     token       : {"", "blank", "token"},
     providerUrl : {"https", "local", "http"},    \* http to another host
     inRange     : BOOLEAN]                       \* every other Literal and bound

validate_database_url(s) == s.database = "postgresql"

require_ipinfo_token(s) ==
    /\ s.provider = "ipinfo" => s.token = "token"    \* strip() leaves a blank one empty
    /\ ~(s.environment = "production" /\ s.provider = "fake")

validate_provider_url(s) == s.providerUrl # "http"

(* Settings() raises ValidationError, or the process starts with s.         *)
Accepts(s) ==
    /\ validate_database_url(s) /\ validate_provider_url(s)
    /\ s.provider # "other" /\ s.inRange
    /\ require_ipinfo_token(s)

(* `required` in the templates: an empty value ends the rendering.          *)
Renders(s) == s.database # "" /\ s.token # ""

(* The migration Job passes four of the values; Settings() fills in the     *)
(* defaults of the others.                                                  *)
OfJob(s) == [s EXCEPT !.providerUrl = "https", !.inRange = TRUE]
=============================================================================
