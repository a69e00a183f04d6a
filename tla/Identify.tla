------------------------------ MODULE Identify ------------------------------
(***************************************************************************)
(* engine/identify.py: what a file is, what its name claims it is, and     *)
(* whether the two contradict each other; with the findings of             *)
(* analyzers/generic.py about the name.                                    *)
(*                                                                         *)
(* A content stands for the formats that one test of the code recognises.  *)
(* A name is the sequence of its extensions, of which Numeric are a number.*)
(* The lists of extensions are given for the extensions of Extensions.     *)
(***************************************************************************)
EXTENDS Integers, Sequences, FiniteSets

Extensions == {".exe", ".so", ".pdf", ".docx", ".txt", ".ps1", ".jpg", ".iso", ".zip", ".apk", ".q16", ".3"}
Numeric == {".3"}

Names == {n \in UNION {[1..k -> Extensions] : k \in 0..2} :
              Len(n) = 2 => n[1] # ".3"}

(* How a content is recognised: at the start of the file, at an offset, by *)
(* what a ZIP carries, by the library's guess, or not at all.              *)
Contents == {"dos", "elf", "pdf", "gzip", "jpeg", "shebang", "tar", "iso", "zip", "docx in zip",
             "apk in zip", "broken zip", "guessed csv", "guessed audio", "text", "bytes"}

Magic == [dos |-> [mime |-> "application/x-dosexec", extensions |-> {".exe"}],
          elf |-> [mime |-> "application/x-elf", extensions |-> {".so"}],
          pdf |-> [mime |-> "application/pdf", extensions |-> {".pdf"}],
          gzip |-> [mime |-> "application/gzip", extensions |-> {".gz"}],
          jpeg |-> [mime |-> "image/jpeg", extensions |-> {".jpg"}],
          shebang |-> [mime |-> "text/x-script", extensions |-> {".sh"}]]

MagicAt == [tar |-> [mime |-> "application/x-tar", extensions |-> {".tar"}],
            iso |-> [mime |-> "application/x-iso9660-image", extensions |-> {".iso"}]]

ZipMarkers == [x \in {"docx in zip", "apk in zip"} |->
    IF x = "docx in zip"
    THEN [mime |-> "application/vnd.openxmlformats", extensions |-> {".docx"}]
    ELSE [mime |-> "application/vnd.android.package-archive", extensions |-> {".apk"}]]

Guesses == [x \in {"guessed csv", "guessed audio"} |->
    IF x = "guessed csv" THEN [mime |-> "text/csv", extensions |-> {".csv"}]
    ELSE [mime |-> "audio/mpeg", extensions |-> {".mp3"}]]

ScriptExtensions == {".ps1"}
ScriptMime == "text/x-powershell"
ZipExtensions == {".zip", ".apk"}
BinaryFormats == {".exe", ".so", ".pdf", ".docx", ".zip", ".apk", ".iso", ".jpg"}
TextualExtensions == {".txt", ".3"}
WindowsRunsThese == {".ps1"}
KnownFormats == BinaryFormats \cup ScriptExtensions \cup WindowsRunsThese
ExecutableExtensions == {".exe", ".ps1", ".apk"}
DocumentExtensions == {".pdf", ".docx", ".txt", ".jpg", ".zip", ".iso"}
ExecutableScriptMimes == {"text/x-powershell", "text/x-script"}

IsText(mime) == mime \in {"text/x-script", "text/csv", "text/plain", "text/x-powershell"}

-----------------------------------------------------------------------------
(* _claimed_extension: a number is stepped over if that reveals a format.  *)
Claimed(n) ==
    IF n = <<>> THEN ""
    ELSE IF n[Len(n)] \in Numeric /\ Len(n) > 1 THEN n[Len(n) - 1] ELSE n[Len(n)]

(* disguised_name                                                          *)
Disguised(n) == /\ Len(n) >= 2
                /\ n[Len(n)] \in ExecutableExtensions
                /\ n[Len(n) - 1] \in DocumentExtensions

(* _zip_identity: the first marker among its names; a ZIP that cannot be   *)
(* read is a ZIP.                                                          *)
ZipIdentity(x) ==
    IF x \in DOMAIN ZipMarkers THEN ZipMarkers[x]
    ELSE [mime |-> "application/zip", extensions |-> ZipExtensions]

(* Mutated: the name is believed first.                                    *)
RecognisedByName(x, claimed) ==
    IF claimed \in ScriptExtensions THEN [mime |-> ScriptMime, extensions |-> {claimed}]
    ELSE IF x \in DOMAIN Magic THEN Magic[x]
    ELSE IF x \in DOMAIN MagicAt THEN MagicAt[x]
    ELSE IF x \in DOMAIN Guesses THEN Guesses[x]
    ELSE ZipIdentity(x)

(* The tests in their order; of what nothing recognises the name decides   *)
(* if it is the name of a script.                                          *)
Recognised(x, claimed) ==
    IF x \in DOMAIN Magic THEN Magic[x]
    ELSE IF x \in DOMAIN MagicAt THEN MagicAt[x]
    ELSE IF x \in {"zip", "broken zip"} \cup DOMAIN ZipMarkers THEN ZipIdentity(x)
    ELSE IF x \in DOMAIN Guesses THEN Guesses[x]
    ELSE IF claimed \in ScriptExtensions THEN [mime |-> ScriptMime, extensions |-> {claimed}]
    ELSE IF x = "text" THEN [mime |-> "text/plain", extensions |-> {".txt"}]
    ELSE [mime |-> "application/octet-stream", extensions |-> {}]

(* _family_for                                                             *)
Family(mime, claimed) ==
    IF mime = "application/x-dosexec" THEN "pe"
    ELSE IF mime = "application/x-elf" THEN "elf"
    ELSE IF mime = "application/pdf" THEN "pdf"
    ELSE IF mime = "application/vnd.openxmlformats" THEN "office"
    ELSE IF mime \in {"application/zip", "application/gzip", "application/x-tar"} THEN "archive"
    ELSE IF mime = "application/vnd.android.package-archive" THEN "apk"
    ELSE IF IsText(mime) \/ claimed \in ScriptExtensions THEN "script"
    ELSE IF mime = "application/x-iso9660-image" \/ claimed = ".iso" THEN "diskimage"
    ELSE "unknown"

(* A name is contradicted only if it promises a format, and text only      *)
(* contradicts the promise of a binary one.                                *)
Mismatch(found, family, claimed) ==
    /\ claimed # "" /\ found.extensions # {}
    /\ claimed \notin found.extensions
    /\ found.mime # "application/octet-stream"
    /\ ~(family = "script" /\ claimed \in ScriptExtensions \cup TextualExtensions)
    /\ ~(IsText(found.mime) /\ claimed \notin BinaryFormats)
    /\ claimed \in KnownFormats \cup TextualExtensions

Identity(x, n) ==
    LET claimed == Claimed(n)
        found == Recognised(x, claimed)
        family == Family(found.mime, claimed)
    IN [mime |-> IF family = "script" /\ claimed \in ScriptExtensions THEN ScriptMime ELSE found.mime,
        claimed |-> claimed,
        mismatch |-> Mismatch(found, family, claimed),
        family |-> family]

(* has_execution_path                                                      *)
ExecutionPath(i) == i.mime \in ExecutableScriptMimes \/ i.claimed \in WindowsRunsThese

(* What analyzers/generic.py says of a name.                               *)
NameFindings(x, n) ==
    {"generic.double_extension" : u \in {v \in {n} : Disguised(v)}}
    \cup {"generic.extension_mismatch" : u \in {v \in {n} : Identity(x, v).mismatch}}

-----------------------------------------------------------------------------
(* The contents that have analyzers of their own.  A disk image is not one *)
(* of them: under the name of a script it is a script.                     *)
Tells(x) == x \in DOMAIN Magic \cup DOMAIN MagicAt \cup DOMAIN ZipMarkers \cup {"zip", "broken zip"}
            /\ x \notin {"jpeg", "iso"}

(* Whatever a file is called, its content decides which analyzers see it,  *)
(* and a name that promises a format the content is not is reported.       *)
NameHidesNothing(x, n) ==
    Tells(x) =>
        /\ Identity(x, n).family = Identity(x, <<>>).family
        /\ /\ Claimed(n) \in BinaryFormats
           /\ Claimed(n) \notin Recognised(x, "").extensions
           => "generic.extension_mismatch" \in NameFindings(x, n)
=============================================================================
