------------------------------- MODULE Unlock -------------------------------
(***************************************************************************)
(* What an agent makes of the pages of the services it probes: the         *)
(* classification in internal/agent/unlock.go and the fields RunQuality    *)
(* hands to the trend table.  A page is what the regular expressions and   *)
(* phrases find in it, or NoPage when nothing was fetched.  The four       *)
(* probes run in parallel and write a field each; ProbeUnlock waits for    *)
(* them, so the result does not depend on their order.                     *)
(***************************************************************************)
CONSTANTS
  Codes,      \* the codes a page or a lookup of the address may name, "" for none
  Whitelist   \* those for which Gemini is offered

\* Pages name capital letters, lookups ISO codes.
ASSUME UnlockAssumption == "N/A" \notin Codes

NoPage == [body |-> ""]

\* gl: the region the page names; has: "google.cn", and "offer" for any of the
\* phrases of an unlocked account.
YouTubePage(gl, has) == [body |-> "page", gl |-> gl, has |-> has]

\* code: the region the page names, "" if none.
RegionPage(code) == [body |-> "page", code |-> code]

YouTubePages == {NoPage} \cup [body : {"page"}, gl : Codes, has : SUBSET {"google.cn", "offer"}]
RegionPages  == {NoPage} \cup [body : {"page"}, code : Codes]
Pages == [yt : YouTubePages, play : RegionPages, gemini : RegionPages]

Statuses == {"N/A", "unknown", "unlocked", "failed", "CN"}

Media(status, region) == [status |-> status, region |-> region]

probeYouTubePremium(page) ==
  IF page.body = "" THEN Media("N/A", "")
  ELSE IF "google.cn" \in page.has THEN Media("CN", "CN")
  ELSE Media(IF "offer" \in page.has THEN "unlocked" ELSE "unknown", page.gl)

probeGooglePlay(page) ==
  IF page.body = "" THEN Media("N/A", "")
  ELSE IF page.code = "" THEN Media("unknown", "")
  ELSE Media(IF page.code = "CN" THEN "failed" ELSE "unlocked", page.code)

probeGemini(page) ==
  IF page.body = "" THEN Media("N/A", "")
  ELSE IF page.code = "" THEN Media("unknown", "")
  ELSE Media(IF page.code \in Whitelist THEN "unlocked" ELSE "failed", page.code)

\* A bug to rule out: the country stands in for a page that was not fetched.
OrCountryAlways(m, cc) == IF m.region = "" THEN Media(m.status, cc) ELSE m

\* The region of the address stands in for one a page does not name.
OrCountry(m, cc) == IF m.region = "" /\ m.status # "N/A" THEN Media(m.status, cc) ELSE m

\* ProbeUnlock: pages is what the probes fetched, cc the country of the
\* address, "" if the lookups failed.
Probed(pages, cc) ==
  [yt     |-> OrCountry(probeYouTubePremium(pages.yt), cc),
   play   |-> OrCountry(probeGooglePlay(pages.play), cc),
   gemini |-> probeGemini(pages.gemini)]

\* What the trend table gets of a service.
TrendField(m) == IF m.region # "" THEN m.region ELSE m.status

Trend(result) ==
  [goog |-> TrendField(result.yt), play |-> TrendField(result.play),
   gemini |-> TrendField(result.gemini)]
=============================================================================
