---------------------------- MODULE MCCloudProcess ----------------------------
(* CloudProcess with two devices, two requests and two files, one of them      *)
(* tried twice, every way to name one, and lines that set a variable twice, to *)
(* nothing, to spaces, to the name of another file and to what cannot be set.  *)
EXTENDS CloudProcess

CONSTANTS p1, p2, v1, v2

MCPath == {p1, p2}
MCText == {Empty, Blank, Nul, p1, p2, v1, v2}
MCKey == {"CLOUD_API_ENV_FILE", "CLOUD_API_ADDR", "POSTGRES_DSN"}
MCCandidates == <<p1, p2, p1>>

Set(key, value) == [kind |-> "set", key |-> key, value |-> value]
Ignored == [kind |-> "ignored"]
Bad == [kind |-> "bad"]

Files == {<<Set("POSTGRES_DSN", v1), Set("POSTGRES_DSN", v2)>>,
          <<Set("POSTGRES_DSN", Empty), Ignored, Set("POSTGRES_DSN", v2), Set("CLOUD_API_ADDR", Nul)>>,
          <<Set("CLOUD_API_ENV_FILE", p2), Set("POSTGRES_DSN", Blank)>>,
          <<Set("CLOUD_API_ADDR", v2), Bad>>}
MCDisks == [Path -> NoFile \cup Files]

Given(file, dsn) == [k \in MCKey |-> IF k = "CLOUD_API_ENV_FILE" THEN file
                                     ELSE IF k = "POSTGRES_DSN" THEN dsn ELSE Empty]
MCEnvironments == {Given(Empty, Empty), Given(p2, Empty), Given(p2, v2), Given(Blank, Blank)}
MCFlags == {Empty, Blank, p1}
=============================================================================
