---------------------------- MODULE ServerSettings ----------------------------
(***************************************************************************)
(* The settings of the TypeScript server: one row with a column per        *)
(* setting, the forms of the dashboard that each send the columns of one   *)
(* part, the schema a PATCH is checked against, and the other schema the   *)
(* whole configuration must pass when it is read back.  Where that one     *)
(* fails the process exits.                                                *)
(***************************************************************************)
EXTENDS FiniteSets, Naturals

CONSTANTS
    Tab,        \* tabs of the dashboard
    MayOpen,    \* the parts each of them opens
    Entry,      \* what is entered in each: pairs of a setting and a value
    FromEnv,    \* the settings environment variables override
    MaxEntries, \* bound on the fields changed in a form of each
    MaxSaves    \* bound on the forms saved in each

VARIABLES
    stored,     \* the row
    live,       \* global.__config__
    up,         \* whether the process runs
    tab,        \* what each tab shows and waits for
    cache,      \* its copy of the row
    asked,      \* what was last entered in a form that was saved
    saves       \* forms saved in each

vars == <<stored, live, up, tab, cache, asked, saves>>

-----------------------------------------------------------------------------
(* The forms.  "nulls" are the fields sent as null when left blank, and    *)
(* "omits" says that a field which is null is not sent at all.  A form     *)
(* with a "gate" disables its other inputs while that switch is off.       *)

Plain(fields) == [fields |-> fields, nulls |-> {}, omits |-> FALSE, gate |-> {}]
Gated(fields, switch) == [Plain(fields) EXCEPT !.gate = {switch}]
Blanked(fields, nulls) == [Plain(fields) EXCEPT !.nulls = nulls]
Trimmed(fields, nulls) == [Blanked(fields, nulls) EXCEPT !.omits = TRUE]

Core == Blanked({"coreReturnHttpsUrls", "coreDefaultDomain", "coreTempDirectory",
                 "coreTrustProxy"}, {"coreDefaultDomain"})
Chunks == Gated({"chunksEnabled", "chunksMax", "chunksSize"}, "chunksEnabled")
Tasks == Plain({"tasksDeleteInterval", "tasksClearInvitesInterval", "tasksMaxViewsInterval",
                "tasksThumbnailsInterval", "tasksMetricsInterval", "tasksCleanThumbnailsInterval"})
Files == Blanked({"filesRoute", "filesLength", "filesDefaultFormat", "filesDisabledTypes",
        "filesDisabledTypesDefault", "filesDisabledExtensions", "filesMaxFileSize",
        "filesDefaultExpiration", "filesMaxExpiration", "filesAssumeMimetypes",
        "filesDefaultDateFormat", "filesRemoveGpsMetadata", "filesRandomWordsNumAdjectives",
        "filesRandomWordsSeparator", "filesDefaultCompressionFormat", "filesMaxFilesPerUpload",
        "filesExtensionlessUrls"},
    {"filesDefaultExpiration", "filesMaxExpiration", "filesDisabledTypesDefault"})
Urls == Plain({"urlsRoute", "urlsLength"})
Features == Plain({"featuresImageCompression", "featuresRobotsTxt", "featuresHealthcheck",
    "featuresUserRegistration", "featuresOauthRegistration", "featuresDeleteOnMaxViews",
    "featuresThumbnailsEnabled", "featuresThumbnailsNumberThreads", "featuresThumbnailsFormat",
    "featuresThumbnailsInstantaneous", "featuresMetricsEnabled", "featuresMetricsAdminOnly",
    "featuresMetricsShowUserSpecific", "featuresVersionChecking", "featuresVersionAPI"})
Invites == Gated({"invitesEnabled", "invitesLength"}, "invitesEnabled")
Website == Blanked({"websiteTitle", "websiteTitleLogo", "websiteExternalLinks",
        "websiteLoginBackground", "websiteLoginBackgroundBlur", "websiteDefaultAvatar",
        "websiteTos", "websiteThemeDefault", "websiteThemeDark", "websiteThemeLight"},
    {"websiteTitleLogo", "websiteLoginBackground", "websiteDefaultAvatar", "websiteTos"})

Discord3 == {"oauthDiscordClientId", "oauthDiscordClientSecret"}
Google3 == {"oauthGoogleClientId", "oauthGoogleClientSecret"}
Github3 == {"oauthGithubClientId", "oauthGithubClientSecret"}
Oidc5 == {"oauthOidcClientId", "oauthOidcClientSecret", "oauthOidcAuthorizeUrl",
          "oauthOidcTokenUrl", "oauthOidcUserinfoUrl"}
Redirects == {"oauthDiscordRedirectUri", "oauthGoogleRedirectUri", "oauthGithubRedirectUri",
              "oauthOidcRedirectUri"}
OauthTexts == Discord3 \union Google3 \union Github3 \union Oidc5 \union Redirects
Oauth == Trimmed({"oauthBypassLocalLogin", "oauthLoginOnly", "oauthDiscordAllowedIds",
                  "oauthDiscordDeniedIds"} \union OauthTexts, OauthTexts)

Mfa == Plain({"mfaTotpEnabled", "mfaTotpIssuer", "mfaPasskeysEnabled", "mfaPasskeysRpID",
              "mfaPasskeysOrigin"})
Ratelimit == [Gated({"ratelimitEnabled", "ratelimitMax", "ratelimitWindow",
                     "ratelimitAdminBypass", "ratelimitAllowList"}, "ratelimitEnabled")
              EXCEPT !.nulls = {"ratelimitWindow"}]
HttpWebhook == LET urls == {"httpWebhookOnUpload", "httpWebhookOnShorten"}
               IN  Trimmed(urls, urls)
DiscordMain == LET texts == {"discordWebhookUrl", "discordUsername", "discordAvatarUrl"}
               IN  Trimmed(texts, texts)
DiscordOnUpload ==
    LET texts == {"discordOnUploadWebhookUrl", "discordOnUploadUsername",
                  "discordOnUploadAvatarUrl", "discordOnUploadContent"}
    IN  Trimmed(texts \union {"discordOnUploadEmbed"}, texts)
DiscordOnShorten ==
    LET texts == {"discordOnShortenWebhookUrl", "discordOnShortenUsername",
                  "discordOnShortenAvatarUrl", "discordOnShortenContent"}
    IN  Trimmed(texts \union {"discordOnShortenEmbed"}, texts)
PWA == LET texts == {"pwaTitle", "pwaShortName", "pwaDescription"}
       IN  [Gated(texts \union {"pwaEnabled", "pwaThemeColor", "pwaBackgroundColor"}, "pwaEnabled")
            EXCEPT !.nulls = texts]
Domains == Plain({"domains"})

Form == [core |-> Core, chunks |-> Chunks, tasks |-> Tasks, files |-> Files, urls |-> Urls,
         features |-> Features, invites |-> Invites, website |-> Website, oauth |-> Oauth,
         mfa |-> Mfa, ratelimit |-> Ratelimit, httpWebhook |-> HttpWebhook,
         discordMain |-> DiscordMain, discordOnUpload |-> DiscordOnUpload,
         discordOnShorten |-> DiscordOnShorten, pwa |-> PWA, domains |-> Domains]
Part == DOMAIN Form
Setting == UNION {Form[p].fields : p \in Part}

(* Every setting but one has an environment variable.                      *)
Overridable == Setting \ {"filesMaxExpiration"}

ServerSettingsAssumption == FromEnv \subseteq Overridable

-----------------------------------------------------------------------------
(* What a column can hold: a value of its kind the installation started    *)
(* with or another one, null, a blank text, a value that has the right     *)
(* JSON type and no meaning; the switches are on or off.                   *)

Switch == (UNION {Form[p].gate : p \in Part}) \union {"mfaPasskeysEnabled"}
Off == {"pwaEnabled", "mfaPasskeysEnabled"}
Unset == {"coreDefaultDomain", "filesDisabledTypesDefault", "filesDefaultExpiration",
          "filesMaxExpiration", "websiteTitleLogo", "websiteLoginBackground",
          "websiteDefaultAvatar", "websiteTos", "mfaPasskeysRpID", "mfaPasskeysOrigin",
          "ratelimitWindow"} \union OauthTexts \union HttpWebhook.fields
         \union DiscordMain.fields \union DiscordOnUpload.fields \union DiscordOnShorten.fields

(* The row readDatabaseSettings creates from the defaults of the columns.  *)
Defaults == [k \in Setting |-> IF k \in Off THEN "off" ELSE IF k \in Switch THEN "on"
                               ELSE IF k \in Unset THEN "null" ELSE "old"]

(* The schema of a PATCH, from the core settings to the themes, and from   *)
(* OAuth to the domains: which columns take a null, a blank text, or a     *)
(* value whose contents nobody looks at (JSON given as text, a negative    *)
(* window).                                                                *)
SiteSchema == [
    null |-> {"coreDefaultDomain", "filesDisabledTypesDefault", "filesDefaultExpiration",
              "filesMaxExpiration", "websiteTitleLogo", "websiteLoginBackground",
              "websiteDefaultAvatar", "websiteTos"},
    empty |-> {"coreTempDirectory", "coreDefaultDomain", "filesDisabledExtensions",
               "filesDefaultDateFormat", "filesRandomWordsSeparator", "websiteTitle",
               "websiteDefaultAvatar", "websiteTos"},
    odd |-> {"websiteExternalLinks"}]
AccessSchema == [
    null |-> OauthTexts \union HttpWebhook.fields \union DiscordMain.fields
             \union DiscordOnUpload.fields \union DiscordOnShorten.fields
             \union {"mfaPasskeysRpID", "mfaPasskeysOrigin", "ratelimitWindow"},
    empty |-> Discord3 \union Google3 \union Github3
              \union {"oauthOidcClientId", "oauthOidcClientSecret", "oauthDiscordAllowedIds",
                      "oauthDiscordDeniedIds", "mfaTotpIssuer", "mfaPasskeysRpID",
                      "mfaPasskeysOrigin", "ratelimitAllowList", "discordUsername",
                      "discordOnUploadUsername", "discordOnUploadContent",
                      "discordOnShortenUsername", "discordOnShortenContent", "pwaTitle",
                      "pwaShortName", "pwaDescription", "domains"},
    odd |-> {"ratelimitWindow", "discordOnUploadEmbed", "discordOnShortenEmbed"}]

Takes(k, v) ==
    CASE v \in {"on", "off"} -> k \in Switch
      [] v \in {"old", "new"} -> k \notin Switch
      [] OTHER -> k \in SiteSchema[v] \union AccessSchema[v]

(* Blank texts the schema turns into null.                                 *)
Transformed(k, v) ==
    IF v = "empty" /\ k \in {"websiteDefaultAvatar", "mfaPasskeysRpID", "mfaPasskeysOrigin"}
    THEN "null" ELSE v

Has(body, k) == k \in DOMAIN body /\ Transformed(k, body[k]) \in {"old", "new", "odd", "on"}

\* Seeded bug: only the first credential is asked for.
CredentialsTogetherById(body) ==
    \A group \in {Discord3, Google3, Github3, Oidc5} :
        (\E k \in group : Has(body, k)) => \E k \in group : Has(body, k)

(* The refinements, which look at the body and never at the row: an OAuth  *)
(* provider needs its credentials, and nothing asks for them when only a   *)
(* redirect URI comes.                                                     *)
CredentialsTogether(body) ==
    \A group \in {Discord3, Google3, Github3, Oidc5} :
        (\E k \in group : Has(body, k)) => \A k \in group : Has(body, k)

RefinementsHold(body) ==
    /\ CredentialsTogether(body)
    /\ Has(body, "ratelimitWindow") => Has(body, "ratelimitMax")
    /\ Has(body, "filesDefaultExpiration") /\ Has(body, "filesMaxExpiration")
       => ~(body["filesDefaultExpiration"] = "new" /\ body["filesMaxExpiration"] = "old")
    /\ Has(body, "mfaPasskeysEnabled")
       => Has(body, "mfaPasskeysRpID") /\ Has(body, "mfaPasskeysOrigin")
    /\ DOMAIN body # {}

Accepted(body) == /\ \A k \in DOMAIN body : Takes(k, body[k])
                  /\ RefinementsHold(body)

-----------------------------------------------------------------------------
(* read(): the row, with what the environment says in its place.           *)
Effective(row) == [k \in Setting |-> IF k \in FromEnv THEN "env" ELSE row[k]]

(* The schema of the configuration, as far as a row that a PATCH accepted  *)
(* can fail it.                                                            *)
ProviderValid(config, credentials, redirect) ==
    \/ \A k \in credentials : config[k] # "null"
    \/ \A k \in credentials \union {redirect} : config[k] = "null"

ProvidersValid(config) ==
    /\ ProviderValid(config, Discord3, "oauthDiscordRedirectUri")
    /\ ProviderValid(config, Google3, "oauthGoogleRedirectUri")
    /\ ProviderValid(config, Github3, "oauthGithubRedirectUri")
    /\ ProviderValid(config, Oidc5, "oauthOidcRedirectUri")

WebsiteValid(config) == config["websiteTos"] # "empty" /\ config["websiteExternalLinks"] # "odd"
EmbedsValid(config) == \A k \in {"discordOnUploadEmbed", "discordOnShortenEmbed"} : config[k] # "odd"
WindowValid(config) == config["ratelimitWindow"] # "odd"

Valid(config) ==
    ProvidersValid(config) /\ WebsiteValid(config) /\ EmbedsValid(config) /\ WindowValid(config)

-----------------------------------------------------------------------------
Closed == [at |-> "closed"]
Showing(p, values, entered) == [at |-> "form", part |-> p, values |-> values, entered |-> entered]

Init ==
    /\ stored = Defaults
    /\ live = Effective(Defaults)
    /\ up = TRUE
    /\ tab = [t \in Tab |-> Closed]
    /\ cache = [t \in Tab |-> Defaults]
    /\ asked = [k \in Setting |-> "nothing"]
    /\ saves = [t \in Tab |-> 0]

(* useServerSettings: a tab fetches the row when it gets the focus.        *)
Fetch(t) ==
    /\ up
    /\ cache[t] # stored
    /\ cache' = [cache EXCEPT ![t] = stored]
    /\ UNCHANGED <<stored, live, up, tab, asked, saves>>

(* A form takes its values from the tab's copy, which may be old, once.    *)
Open(t, p) ==
    /\ tab[t] = Closed
    /\ tab' = [tab EXCEPT ![t] = Showing(p, [k \in Form[p].fields |-> cache[t][k]], {})]
    /\ UNCHANGED <<stored, live, up, cache, asked, saves>>

(* Most forms disable what the environment overrides; three do not.        *)
Lockless == Domains.fields \union DiscordMain.fields \union DiscordOnShorten.fields

Disabled(t, k) ==
    LET form == Form[tab[t].part]
    IN  \/ k \in FromEnv \ Lockless
        \/ \E switch \in form.gate \ {k} : tab[t].values[switch] = "off"

Enter(t, k, v) ==
    /\ tab[t].at = "form"
    /\ k \in Form[tab[t].part].fields \ tab[t].entered
    /\ Cardinality(tab[t].entered) < MaxEntries[t]
    /\ tab[t].values[k] # v
    /\ ~Disabled(t, k)
    /\ tab' = [tab EXCEPT ![t].values[k] = v, ![t].entered = @ \union {k}]
    /\ UNCHANGED <<stored, live, up, cache, asked, saves>>

(* The administrator goes elsewhere.                                       *)
Leave(t) ==
    /\ tab[t].at = "form"
    /\ tab' = [tab EXCEPT ![t] = Closed]
    /\ UNCHANGED <<stored, live, up, cache, asked, saves>>

\* Seeded bug: the form sends back the whole row it was opened with.
SentWhole(t) ==
    [k \in Setting |-> IF k \notin Form[tab[t].part].fields THEN cache[t][k]
                       ELSE IF tab[t].values[k] = "empty" /\ k \in Form[tab[t].part].nulls THEN "null"
                       ELSE tab[t].values[k]]

(* What a form sends: its fields, blank ones as null where it says so.     *)
Sent(t) ==
    LET form == Form[tab[t].part]
        value == [k \in form.fields |->
                    IF tab[t].values[k] = "empty" /\ k \in form.nulls THEN "null" ELSE tab[t].values[k]]
        sent == IF form.omits
                THEN {k \in form.fields : tab[t].values[k] # "null" \/ k \notin form.nulls}
                ELSE form.fields
    IN  [k \in sent |-> value[k]]

Saved(body) ==
    [k \in Setting |-> IF k \in DOMAIN body THEN Transformed(k, body[k]) ELSE stored[k]]

(* PATCH: the body is checked and written.  One that is refused changes    *)
(* nothing, and the form stays.                                            *)
Save(t) ==
    /\ up
    /\ tab[t].at = "form" /\ tab[t].entered # {}
    /\ Accepted(Sent(t))
    /\ saves[t] < MaxSaves[t]
    /\ stored' = Saved(Sent(t))
    /\ tab' = [tab EXCEPT ![t] = [at |-> "saved", row |-> Saved(Sent(t))]]
    /\ asked' = [k \in Setting |-> IF k \in tab[t].entered \intersect DOMAIN Sent(t)
                                   THEN Saved(Sent(t))[k] ELSE asked[k]]
    /\ saves' = [saves EXCEPT ![t] = @ + 1]
    /\ UNCHANGED <<live, up, cache>>

(* reloadSettings, the read of the row.                                    *)
ReadBack(t) ==
    /\ tab[t].at = "saved"
    /\ tab' = [tab EXCEPT ![t] = [at |-> "read", row |-> tab[t].row, config |-> Effective(stored)]]
    /\ UNCHANGED <<stored, live, up, cache, asked, saves>>

(* reloadSettings, the rest, and the answer the tab keeps.                 *)
Swap(t) ==
    /\ tab[t].at = "read" /\ Valid(tab[t].config)
    /\ live' = tab[t].config
    /\ cache' = [cache EXCEPT ![t] = tab[t].row]
    /\ tab' = [tab EXCEPT ![t] = Closed]
    /\ UNCHANGED <<stored, up, asked, saves>>

Dead == /\ up' = FALSE
        /\ tab' = [t \in Tab |-> IF tab[t].at \in {"saved", "read"} THEN Closed ELSE tab[t]]
        /\ UNCHANGED <<stored, live, cache, asked, saves>>

(* validateConfigObject ends the process.                                  *)
Exit(t) == tab[t].at = "read" /\ ~Valid(tab[t].config) /\ Dead

(* The process dies of something else.                                     *)
Crash == up /\ Dead

(* main: the settings are read and validated before anything is served.    *)
Start ==
    /\ ~up /\ Valid(Effective(stored))
    /\ up' = TRUE
    /\ live' = Effective(stored)
    /\ UNCHANGED <<stored, tab, cache, asked, saves>>

Step(t) ==
    \/ Fetch(t)
    \/ \E p \in MayOpen[t] : Open(t, p)
    \/ \E e \in Entry[t] : Enter(t, e[1], e[2])
    \/ Leave(t) \/ Save(t) \/ ReadBack(t) \/ Swap(t) \/ Exit(t)

Next == (\E t \in Tab : Step(t)) \/ Crash \/ Start

Spec == Init /\ [][Next]_vars

-----------------------------------------------------------------------------
(* Whatever the forms and the PATCH accepted, the process can start with   *)
(* the row: the schema of the PATCH does not let through what the schema   *)
(* of the configuration refuses.                                           *)
KeepsStarting == Valid(Effective(stored))

(* It can unless a value of the right JSON type that has no meaning was    *)
(* stored, a negative window or JSON given as text: this is what the two   *)
(* schemas differ in, whatever the body of a PATCH leaves to the row.      *)
StartsUnlessOdd == KeepsStarting \/ \E k \in Setting \ FromEnv : stored[k] = "odd"

(* As long as no two tabs work on one part, and none opens a part from a   *)
(* copy older than its own last save, what an administrator entered and    *)
(* saved is in the row until he or she enters something else there: no     *)
(* form undoes the work of another.                                        *)
EditsStand == \A k \in Setting : asked[k] \in {"nothing", stored[k]}

(* While no save is under way the process runs with the row, but for the   *)
(* settings of the environment, which it never loses.                      *)
LiveIsRow ==
    up /\ (\A t \in Tab : tab[t].at \in {"closed", "form"}) =>
        \A k \in Setting : live[k] = IF k \in FromEnv THEN "env" ELSE stored[k]
=============================================================================
