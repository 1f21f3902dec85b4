------------------------------- MODULE Report -------------------------------
(***************************************************************************)
(* main.run after a complete scan: the report directory, the console       *)
(* report, the formats one after another, the CSV of the payloads, the     *)
(* e-mail.  Two prompts may wait for the user.  Every call to the file     *)
(* system may fail, a write may fall short, and an interrupt reaches only  *)
(* the calls that take the context: the browser and the e-mail.            *)
(*                                                                         *)
(* A file is "absent", "partial" or "full"; HTML and PDF go through a      *)
(* temporary file each.                                                    *)
(***************************************************************************)
EXTENDS Naturals, Sequences, Functions

VARIABLES
  options,        \* the flags of the report, fixed
  reportPc,       \* the call main is in, "done" (exit code 0) or "failed"
  nextFormat,     \* index of the format ExportFullReport is at
  file,           \* the files in the report directory
  temp,           \* the temporary files
  fellShort,      \* history: a write to a temporary file was not complete
  emailSent,      \* the report server has accepted the report
  canceled        \* ctx is done

fileVars == <<file, temp, fellShort>>
vars == <<options, reportPc, nextFormat, fileVars, emailSent, canceled>>

Formats == {"html", "pdf", "json"}
Contents == {"absent", "partial", "full"}

\* ValidateReportFormat: known, not repeated, and "none" only alone.
AcceptedFormats ==
  {list \in UNION {[1 .. n -> Formats \cup {"none"}] : n \in 1 .. 3} :
     IsInjective(list) /\ ("none" \in Range(list) => Len(list) = 1)}

\* What of the other flags was given: --email has an address, --includePayloads
\* is there, true or false.
Options == [formats : AcceptedFormats, noEmailReport : BOOLEAN, email : BOOLEAN,
            includePayloads : BOOLEAN]

IsNoneReportFormat == options.formats[1] = "none"

askForPayloads ==
  /\ Range(options.formats) \cap {"html", "pdf"} # {}
  /\ ~options.includePayloads /\ ~options.noEmailReport /\ ~options.email

Init ==
  /\ options \in Options
  /\ reportPc = "mkdir"
  /\ nextFormat = 1
  /\ file = [f \in Formats \cup {"csv"} |-> "absent"]
  /\ temp = [f \in {"html", "pdf"} |-> "absent"]
  /\ fellShort = FALSE
  /\ emailSent = FALSE
  /\ canceled = FALSE

\* os.Stat and os.Mkdir
MakeReportDir ==
  /\ reportPc = "mkdir"
  /\ reportPc' \in {"console", "failed"}
  /\ UNCHANGED <<options, nextFormat, fileVars, emailSent, canceled>>

\* GetStatistics and RenderConsoleReport; the log format is a valid one.
RenderConsoleReport ==
  /\ reportPc = "console"
  /\ reportPc' = IF IsNoneReportFormat THEN "done"
                 ELSE IF askForPayloads THEN "askPayloads" ELSE "export"
  /\ UNCHANGED <<options, nextFormat, fileVars, emailSent, canceled>>

\* The user answers whether payloads are included; either way main goes on.
AnswerPayloads ==
  /\ reportPc = "askPayloads"
  /\ reportPc' = "export"
  /\ UNCHANGED <<options, nextFormat, fileVars, emailSent, canceled>>

-----------------------------------------------------------------------------
(* ExportFullReport: one turn of the loop per format.                      *)

Exporting(format) == options.formats[nextFormat] = format

\* The format is exported: the next one, or the end of the loop.
NextFormat ==
  /\ nextFormat' = nextFormat + 1
  /\ reportPc' = IF nextFormat = Len(options.formats) THEN "csv" ELSE "export"

\* Mutant of PrintJson: the loop goes on with the next format after an error.
PrintJson_GoesOn ==
  /\ reportPc = "export"
  /\ Exporting("json")
  /\ \E content \in Contents : file' = [file EXCEPT !["json"] = content]
  /\ NextFormat
  /\ UNCHANGED <<options, temp, fellShort, emailSent, canceled>>

\* printFullReportToJson: a failed write leaves what was written.
PrintJson ==
  /\ reportPc = "export"
  /\ Exporting("json")
  /\ \E content \in Contents :
       /\ file' = [file EXCEPT !["json"] = content]
       /\ IF content = "full" THEN NextFormat ELSE reportPc' = "failed" /\ UNCHANGED nextFormat
  /\ UNCHANGED <<options, temp, fellShort, emailSent, canceled>>

\* exportFullReportToHtml, for HTML and PDF: the error of the write is not
\* looked at, those of the creation and of Chmod are.
ExportToTemp(format) ==
  /\ reportPc = "export"
  /\ Exporting(format)
  /\ \E content \in Contents :
       /\ temp' = [temp EXCEPT ![format] = content]
       /\ fellShort' = (fellShort \/ content = "partial")
       /\ reportPc' \in {"failed"} \cup (IF content = "absent" THEN {} ELSE {"temp"})
  /\ UNCHANGED <<options, nextFormat, file, emailSent, canceled>>

\* FileMove: copied and the source removed; copied and the source cannot be
\* removed; not copied, and the copy removed unless that fails too.
FileMove ==
  /\ reportPc = "temp"
  /\ Exporting("html")
  /\ \/ /\ file' = [file EXCEPT !["html"] = temp["html"]]
        /\ temp' = [temp EXCEPT !["html"] = "absent"]
        /\ NextFormat
     \/ /\ file' = [file EXCEPT !["html"] = temp["html"]]
        /\ reportPc' = "failed"
        /\ UNCHANGED <<nextFormat, temp>>
     \/ /\ \E content \in {"absent", "partial"} : file' = [file EXCEPT !["html"] = content]
        /\ reportPc' = "failed"
        /\ UNCHANGED <<nextFormat, temp>>
  /\ UNCHANGED <<options, fellShort, emailSent, canceled>>

\* renderToPDF: the browser takes the context; the temporary file stays.
RenderToPDF ==
  /\ reportPc = "temp"
  /\ Exporting("pdf")
  /\ \/ /\ ~canceled
        /\ file' = [file EXCEPT !["pdf"] = temp["pdf"]]
        /\ NextFormat
     \/ /\ \E content \in {"absent", "partial"} : file' = [file EXCEPT !["pdf"] = content]
        /\ reportPc' = "failed"
        /\ UNCHANGED nextFormat
  /\ UNCHANGED <<options, temp, fellShort, emailSent, canceled>>

\* db.ExportPayloads; its error is wrapped and dropped.
ExportPayloads ==
  /\ reportPc = "csv"
  /\ \E content \in Contents : file' = [file EXCEPT !["csv"] = content]
  /\ reportPc' = IF options.noEmailReport THEN "done"
                 ELSE IF options.email THEN "email" ELSE "askEmail"
  /\ UNCHANGED <<options, nextFormat, temp, fellShort, emailSent, canceled>>

-----------------------------------------------------------------------------

\* No address, one that is not valid, or a valid one.
AnswerEmail ==
  /\ reportPc = "askEmail"
  /\ reportPc' \in {"done", "failed", "email"}
  /\ UNCHANGED <<options, nextFormat, fileVars, emailSent, canceled>>

\* Mutant of SendReportByEmail: an error of the server is only logged.
SendReportByEmail_IgnoresError ==
  /\ reportPc = "email"
  /\ reportPc' = "done"
  /\ emailSent' \in BOOLEAN
  /\ UNCHANGED <<options, nextFormat, fileVars, canceled>>

\* sendEmail: accepted, or an error, with or without the server having the
\* report by then.
SendReportByEmail ==
  /\ reportPc = "email"
  /\ \/ ~canceled /\ emailSent' = TRUE /\ reportPc' = "done"
     \/ emailSent' \in BOOLEAN /\ reportPc' = "failed"
  /\ UNCHANGED <<options, nextFormat, fileVars, canceled>>

\* Calls that return in the end when ctx is done: all but the prompts.
Call ==
  \/ MakeReportDir
  \/ RenderConsoleReport
  \/ PrintJson
  \/ \E format \in {"html", "pdf"} : ExportToTemp(format)
  \/ FileMove
  \/ RenderToPDF
  \/ ExportPayloads
  \/ SendReportByEmail

AtPrompt == reportPc \in {"askPayloads", "askEmail"}

Prompt == AnswerPayloads \/ AnswerEmail

Next == Call \/ Prompt

Ended == reportPc \in {"done", "failed"}

-----------------------------------------------------------------------------

Requested == Range(options.formats) \ {"none"}

\* A program that exits with code 0 has written each format it was asked for,
\* in full unless a write to a temporary file fell short, has sent the report
\* to the address it was given, and leaves no temporary file but the PDF's.
SuccessMeansExported ==
  reportPc = "done" =>
    /\ \A f \in Requested : file[f] = "full" \/ (fellShort /\ f # "json" /\ file[f] = "partial")
    /\ \A f \in Formats \ Requested : file[f] = "absent"
    /\ options.email /\ ~options.noEmailReport /\ ~IsNoneReportFormat => emailSent
    /\ temp["html"] = "absent"

\* A report is mailed only after all of its formats are on disk, and never
\* with --noEmailReport: "Save report locally".
EmailOfExportedReport ==
  emailSent => ~options.noEmailReport /\ \A f \in Requested : file[f] # "absent"
=============================================================================
