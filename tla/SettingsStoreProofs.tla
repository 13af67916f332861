------------------------ MODULE SettingsStoreProofs ------------------------
(***************************************************************************)
(* Proofs about SettingsStore, for any forms, apps and number of request   *)
(* threads.                                                                *)
(***************************************************************************)
EXTENDS SettingsStore, TLAPS

\* What has been saved so far: a later save has a greater number.
SavesInv == (\E S : saves \in Seq(S)) /\ Last >= 1

\* No Runtipi is installed under the path that load_config falls back to; the
\* container's default is another one (container.py:41).
DefaultPathBare == AppsAt[DefaultPath] = {}

\* Nothing in the file, or about to be written to it, is older than the last
\* change that was confirmed.
RenderInv ==
    /\ confirmed \in 0 .. Last
    /\ config \in Readings => config.save <= Last /\ confirmed <= config.save
    /\ \A c \in Clients : pc[c] \in {"open", "write"} =>
           doc[c] \in Readings /\ doc[c].save <= Last /\ confirmed <= doc[c].save

\* A client that met no other POST is the only one at work.
AloneInv == \A c \in alone : \A d \in Clients : pc[d] # "idle" => d = c

\* What a backup has read so far.
BackupInv ==
    /\ bpc = "config" => floor.confirmed <= confirmed
    /\ bpc # "idle" => floor.saved <= Last
    /\ bpc \in {"settings", "discover", "archive"} =>
           /\ bconfig \in Readings \cup {Empty}
           /\ bconfig \in Readings =>
                  bconfig.save <= Last /\ floor.confirmed <= bconfig.save
    /\ bpc \in {"discover", "archive"} /\ target = None =>
           /\ bsettings \in Readings
           /\ floor.saved <= bsettings.save /\ bsettings.save <= Last
           /\ bconfig \in Readings => bconfig.save <= bsettings.save
    /\ floor.confirmed \in Nat

\* A backup under way does not go by a truncated file.
FallbackInv == bpc = "archive" => bconfig # Empty

StoreInv == TypeOK /\ SavesInv /\ RenderInv /\ AloneInv /\ BackupInv

LEMMA SavesGrow ==
    ASSUME SavesInv, NEW e, saves' = Append(saves, e)
    PROVE  SavesInv' /\ Last' = Last + 1
<1>1. PICK S : saves \in Seq(S)
      BY DEF SavesInv
<1>2. saves \in Seq(S \cup {e})
      BY <1>1
<1>3. Append(saves, e) \in Seq(S \cup {e}) /\ Len(Append(saves, e)) = Len(saves) + 1
      BY <1>2
<1>4. QED
      BY <1>3 DEF SavesInv, Last

LEMMA LastTyped == SavesInv => Last \in Nat \ {0}
<1> SUFFICES ASSUME SavesInv PROVE Last \in Nat \ {0}
    OBVIOUS
<1>1. PICK S : saves \in Seq(S)
      BY DEF SavesInv
<1>2. Len(saves) \in Nat
      BY <1>1
<1>3. QED
      BY <1>2 DEF SavesInv, Last

\* A reading is not one of the marks for a file that holds none, and is told
\* by its two fields.
LEMMA ReadingsTyped ==
    /\ Empty \notin Readings /\ Mixed \notin Readings /\ None \notin Readings
    /\ \A r \in Readings : r.save \in Numbers /\ r.save \in Nat /\ r.ok \in BOOLEAN
    /\ \A r \in Readings : r = [save |-> r.save, ok |-> r.ok]
BY SettingsAssumption DEF Readings, Numbers

\* A read finds the last save, or nothing.
LEMMA ReadsLast ==
    ASSUME Last \in Numbers, NEW r \in SettingsRead
    PROVE  r \in Readings /\ r.save = Last /\ ("read" \notin Faults => r.ok)
<1>1. PICK ok \in IF "read" \in Faults THEN BOOLEAN ELSE {TRUE} :
            r = [save |-> Last, ok |-> ok]
      BY DEF SettingsRead
<1>2. ok \in BOOLEAN /\ ("read" \notin Faults => ok = TRUE)
      BY <1>1
<1>3. r.save = Last /\ r.ok = ok
      BY <1>1
<1>4. QED
      BY <1>1, <1>2, <1>3 DEF Readings

\* A truncated file stands for the defaults.
LEMMA EmptyInstalls == Installed(Empty) = AppsAt[DefaultPath]
<1>1. DOMAIN NoDocument = {}
      BY DEF NoDocument
<1>2. Field(NoDocument, "runtipi", NoDocument) = NoDocument
      BY <1>1 DEF Field
<1>3. Field(NoDocument, "path", DefaultPath) = DefaultPath
      BY <1>1 DEF Field
<1>4. Loaded(NoDocument).path = DefaultPath
      BY <1>2, <1>3 DEF Loaded
<1>5. QED
      BY <1>4 DEF Installed, Document

LEMMA StoreInit == Init => StoreInv
<1> SUFFICES ASSUME Init PROVE StoreInv
    OBVIOUS
<1>1. PICK first \in FirstSettings : saves = <<first>>
      BY DEF Init
<1>2. saves \in Seq({first}) /\ Len(saves) = 1
      BY <1>1
<1>3. SavesInv
      BY <1>2 DEF SavesInv, Last
<1>4. TypeOK
  <2>1. Len(saves) \in Numbers /\ 0 \in 0 .. MaxSaves
        BY <1>2, SettingsAssumption DEF Numbers
  <2>2. /\ pc \in [Clients -> {"idle"}]
        /\ doc \in [Clients -> Readings \cup {None}]
        BY DEF Init
  <2>3. floor \in [saved : 0 .. MaxSaves, confirmed : 0 .. MaxSaves]
        BY <2>1 DEF Init, NoFloor
  <2>4. QED
        BY <2>1, <2>2, <2>3 DEF Init, TypeOK
<1>5. RenderInv /\ AloneInv /\ BackupInv
      BY <1>2, ReadingsTyped
      DEF Init, RenderInv, AloneInv, BackupInv, Last, NoFloor
<1>6. QED
      BY <1>3, <1>4, <1>5 DEF StoreInv

LEMMA StoreStep ==
    ASSUME StoreInv, [Next]_vars
    PROVE  StoreInv'
<1> USE SettingsAssumption, LastTyped, ReadingsTyped
    DEF StoreInv, TypeOK, RenderInv, AloneInv, BackupInv, handlers, backup
<1>0. Last \in Nat \ {0} /\ Last <= MaxSaves /\ Last \in Numbers
      BY DEF Last, Numbers
<1>1. ASSUME saves' = saves
      PROVE  SavesInv' /\ Last' = Last /\ Len(saves') \in Numbers
      BY <1>1 DEF SavesInv, Last
<1>2. CASE StartUp
  <2>1. /\ config' \in Readings /\ config'.save = Last
        /\ suspect' \in BOOLEAN /\ up' \in BOOLEAN
        BY <1>0, <1>2, ReadsLast DEF StartUp
  <2>2. TypeOK'
        BY <1>1, <1>2, <2>1 DEF StartUp
  <2>3. RenderInv'
        BY <1>0, <1>1, <1>2, <2>1 DEF StartUp
  <2>4. AloneInv' /\ BackupInv'
        BY <1>1, <1>2 DEF StartUp
  <2>5. QED
        BY <1>1, <1>2, <2>2, <2>3, <2>4 DEF StartUp
<1>3. CASE StartUpFails
      BY <1>0, <1>1, <1>3 DEF StartUpFails
<1>4. CASE Crash
  <2>1. /\ pc' \in [Clients -> {"idle"}]
        /\ doc' \in [Clients -> Readings \cup {None}]
        BY <1>4 DEF Crash
  <2>2. floor' \in [saved : 0 .. MaxSaves, confirmed : 0 .. MaxSaves]
        /\ floor'.confirmed = 0
        BY <1>4 DEF Crash, NoFloor
  <2>3. TypeOK'
        BY <1>1, <1>4, <2>1, <2>2 DEF Crash
  <2>4. RenderInv' /\ AloneInv' /\ BackupInv'
        BY <1>1, <1>4, <2>1, <2>2 DEF Crash
  <2>5. QED
        BY <1>1, <1>4, <2>3, <2>4 DEF Crash
<1>5. ASSUME NEW c \in Clients, NEW form \in Forms, Post(c, form)
      PROVE  StoreInv'
      BY <1>0, <1>1, <1>5 DEF Post, Busy
<1>6. ASSUME NEW c \in Clients, Save(c) PROVE StoreInv'
  <2>1. SavesInv' /\ Last' = Last + 1
        BY <1>6, SavesGrow DEF Save
  <2>2. Last' \in Numbers
        BY <1>0, <1>6, <2>1 DEF Save, Numbers
  <2>3. TypeOK'
        BY <1>6, <2>2 DEF Save, Last
  <2>4. RenderInv'
        BY <1>0, <1>6, <2>1 DEF Save
  <2>5. AloneInv' /\ BackupInv'
        BY <1>0, <1>6, <2>1 DEF Save
  <2>6. QED
        BY <2>1, <2>3, <2>4, <2>5
<1>7. ASSUME NEW c \in Clients, SaveFails(c) PROVE StoreInv'
      BY <1>0, <1>1, <1>7 DEF SaveFails
<1>8. ASSUME NEW c \in Clients, LoadToRender(c) PROVE StoreInv'
  <2>1. PICK r \in SettingsRead : doc' = [doc EXCEPT ![c] = r]
        BY <1>8 DEF LoadToRender
  <2>2. r \in Readings /\ r.save = Last
        BY <1>0, ReadsLast
  <2>3. TypeOK' /\ RenderInv'
        BY <1>0, <1>1, <1>8, <2>1, <2>2 DEF LoadToRender
  <2>4. AloneInv' /\ BackupInv'
        BY <1>1, <1>8 DEF LoadToRender
  <2>5. QED
        BY <1>1, <1>8, <2>3, <2>4 DEF LoadToRender
<1>9. ASSUME NEW c \in Clients, OpenConfig(c) PROVE StoreInv'
      BY <1>0, <1>1, <1>9 DEF OpenConfig
<1>10. ASSUME NEW c \in Clients, WriteConfig(c) PROVE StoreInv'
  <2>1. config' \in {doc[c], Mixed} /\ doc[c] \in Readings
        /\ doc[c].save <= Last /\ confirmed <= doc[c].save
        BY <1>0, <1>10 DEF WriteConfig, Overwritten
  <2>2. c \in alone => \A d \in Clients : pc'[d] = "idle"
        BY <1>10 DEF WriteConfig, Handled
  <2>3. /\ confirmed' = doc[c].save \/ confirmed' = confirmed
        /\ confirmed' \in 0 .. MaxSaves /\ suspect' \in BOOLEAN
        BY <1>0, <1>10, <2>1 DEF WriteConfig, Numbers
  <2>4. RenderInv'
        BY <1>0, <1>1, <1>10, <2>1, <2>2, <2>3 DEF WriteConfig, Handled
  <2>5. TypeOK'
        BY <1>0, <1>1, <1>10, <2>1, <2>3 DEF WriteConfig, Handled
  <2>6. AloneInv' /\ BackupInv'
        BY <1>0, <1>1, <1>10, <2>1, <2>3 DEF WriteConfig, Handled
  <2>7. QED
        BY <1>1, <1>10, <2>4, <2>5, <2>6 DEF WriteConfig
<1>11. ASSUME NEW c \in Clients, WriteFails(c) PROVE StoreInv'
       BY <1>0, <1>1, <1>11 DEF WriteFails, Handled
<1>12. ASSUME NEW app \in Apps \cup {None}, BackupBegins(app) PROVE StoreInv'
       BY <1>0, <1>1, <1>12 DEF BackupBegins
<1>13. CASE ReadConfig
       BY <1>0, <1>1, <1>13 DEF ReadConfig, LoadedNow, Readable
<1>14. CASE ReadExcluded
  <2>1. bsettings' \in Readings /\ bsettings'.save = Last
        BY <1>0, <1>14, ReadsLast DEF ReadExcluded, ExclusionsRead
  <2>2. QED
        BY <1>0, <1>1, <1>14, <2>1 DEF ReadExcluded
<1>15. CASE Discover
       BY <1>0, <1>1, <1>15 DEF Discover
<1>16. CASE BackupEnds
       BY <1>0, <1>1, <1>16 DEF BackupEnds, BackupOver, NoFloor
<1>17. CASE UNCHANGED vars
       BY <1>0, <1>1, <1>17 DEF vars
<1>18. QED
       BY <1>2, <1>3, <1>4, <1>5, <1>6, <1>7, <1>8, <1>9, <1>10, <1>11, <1>12,
          <1>13, <1>14, <1>15, <1>16, <1>17
       DEF Next, HandlerStep, BackupStep

\* What is read, and what is rendered from it, is what was saved.
SureInv ==
    /\ config \in Readings => config.ok
    /\ \A c \in Clients : doc[c] \in Readings => doc[c].ok
    /\ bconfig \in Readings => bconfig.ok
    /\ bsettings \in Readings => bsettings.ok

LEMMA SureStep ==
    ASSUME "read" \notin Faults, StoreInv, SureInv, [Next]_vars
    PROVE  SureInv'
<1> USE ReadingsTyped DEF StoreInv, TypeOK, RenderInv, SureInv, handlers, backup
<1>0. Last \in Numbers
      BY DEF Last
<1>1. CASE StartUp \/ StartUpFails \/ Crash
      BY <1>0, <1>1, ReadsLast DEF StartUp, StartUpFails, Crash
<1>2. ASSUME NEW c \in Clients, LoadToRender(c) PROVE SureInv'
      BY <1>0, <1>2, ReadsLast DEF LoadToRender
<1>3. ASSUME NEW c \in Clients, WriteConfig(c) PROVE SureInv'
      BY <1>3 DEF WriteConfig, Overwritten, Handled
<1>4. ASSUME NEW c \in Clients,
             \/ Save(c) \/ SaveFails(c) \/ OpenConfig(c) \/ WriteFails(c)
             \/ \E form \in Forms : Post(c, form)
      PROVE  SureInv'
      BY <1>4 DEF Post, Save, SaveFails, OpenConfig, WriteFails, Handled
<1>5. ASSUME NEW app \in Apps \cup {None}, BackupBegins(app) PROVE SureInv'
      BY <1>5 DEF BackupBegins
<1>6. CASE ReadConfig
      BY <1>6 DEF ReadConfig, LoadedNow, Readable
<1>7. CASE ReadExcluded
      BY <1>0, <1>7, ReadsLast DEF ReadExcluded, ExclusionsRead
<1>8. CASE Discover \/ BackupEnds
      BY <1>8 DEF Discover, BackupEnds, BackupOver
<1>9. CASE UNCHANGED vars
      BY <1>9 DEF vars
<1>10. QED
       BY <1>1, <1>2, <1>3, <1>4, <1>5, <1>6, <1>7, <1>8, <1>9
       DEF Next, HandlerStep, BackupStep

\* The apps of a backup are those under the path of its configuration: where
\* the fallback has none, a backup ends before it gets to them.
LEMMA FallbackStep ==
    ASSUME DefaultPathBare, FallbackInv, [Next]_vars
    PROVE  FallbackInv'
<1> USE DEF FallbackInv, handlers, backup
<1>1. CASE StartUp \/ StartUpFails \/ Crash
      BY <1>1 DEF StartUp, StartUpFails, Crash
<1>2. ASSUME NEW c \in Clients, HandlerStep(c) \/ \E form \in Forms : Post(c, form)
      PROVE  FallbackInv'
      BY <1>2 DEF HandlerStep, Post, Save, SaveFails, LoadToRender, OpenConfig,
                  WriteConfig, WriteFails
<1>3. ASSUME NEW app \in Apps \cup {None}, BackupBegins(app) PROVE FallbackInv'
      BY <1>3 DEF BackupBegins
<1>4. CASE ReadConfig \/ ReadExcluded \/ BackupEnds
      BY <1>4 DEF ReadConfig, ReadExcluded, BackupEnds, BackupOver
<1>5. CASE Discover
      BY <1>5, EmptyInstalls DEF Discover, DefaultPathBare
<1>6. CASE UNCHANGED vars
      BY <1>6 DEF vars
<1>7. QED
      BY <1>1, <1>2, <1>3, <1>4, <1>5, <1>6 DEF Next, BackupStep

\* Every state is well typed.
THEOREM TypeCorrect == Spec => []TypeOK
<1>1. StoreInv => TypeOK
      BY DEF StoreInv
<1>2. QED
      BY <1>1, StoreInit, StoreStep, PTL DEF Spec

\* A backup goes by a rendering that was loaded no earlier than the last change
\* confirmed before it began that had met no other POST, whatever other
\* threads, failing reads and writes and kills did to config.yaml meanwhile.
THEOREM ConfirmedUsed ==
    ASSUME DefaultPathBare
    PROVE  Spec => []ConfirmedIsUsed
<1>1. Init => FallbackInv
      BY DEF Init, FallbackInv
<1>2. FallbackInv /\ [Next]_vars => FallbackInv'
      BY FallbackStep
<1>3. StoreInv /\ FallbackInv => ConfirmedIsUsed
      BY DEF StoreInv, BackupInv, FallbackInv, ConfirmedIsUsed
<1>4. QED
      BY <1>1, <1>2, <1>3, StoreInit, StoreStep, PTL DEF Spec

\* As long as the settings can be read, that change, or a later one, is in
\* force in the backup.
THEOREM ConfirmedInForce ==
    ASSUME DefaultPathBare, "read" \notin Faults
    PROVE  Spec => []ChangeInForce
<1>1. Init => FallbackInv /\ SureInv
      BY ReadingsTyped DEF Init, FallbackInv, SureInv
<1>2. FallbackInv /\ [Next]_vars => FallbackInv'
      BY FallbackStep
<1>3. StoreInv /\ SureInv /\ [Next]_vars => SureInv'
      BY SureStep
<1>4. StoreInv /\ FallbackInv /\ SureInv => ChangeInForce
      BY DEF StoreInv, BackupInv, FallbackInv, SureInv, ChangeInForce
<1>5. QED
      BY <1>1, <1>2, <1>3, <1>4, StoreInit, StoreStep, PTL DEF Spec

\* The exclusions of a backup of all apps are read no earlier than the settings
\* its configuration was rendered from.
THEOREM ExclusionsCurrent ==
    ASSUME DefaultPathBare
    PROVE  Spec => []ExclusionsNotOlder
<1>1. Init => FallbackInv
      BY DEF Init, FallbackInv
<1>2. FallbackInv /\ [Next]_vars => FallbackInv'
      BY FallbackStep
<1>3. StoreInv /\ FallbackInv => ExclusionsNotOlder
      BY DEF StoreInv, BackupInv, FallbackInv, ExclusionsNotOlder
<1>4. QED
      BY <1>1, <1>2, <1>3, StoreInit, StoreStep, PTL DEF Spec

\* What a backup of all apps archives was not excluded in the settings it has
\* read, which are one of the saves since it began.
LEMMA ChosenAdmitted ==
    ASSUME StoreInv, bpc = "archive", target = None, bsettings.ok,
           NEW a \in Chosen
    PROVE  \E n \in floor.saved .. Last : a \notin LoadSettings(saves[n]).excluded_apps
<1>1. a \notin LoadSettings(saves[bsettings.save]).excluded_apps
      BY DEF Chosen, Excluded, Settings
<1>2. /\ floor.saved <= bsettings.save /\ bsettings.save <= Last
      /\ bsettings.save \in Nat
      BY ReadingsTyped DEF StoreInv, BackupInv
<1>3. Last \in Nat /\ floor.saved \in Nat
      BY LastTyped DEF StoreInv, TypeOK
<1>4. bsettings.save \in floor.saved .. Last
      BY <1>2, <1>3
<1>5. QED
      BY <1>1, <1>4

\* An app that was excluded when a backup of all apps began is left alone by
\* it unless some later save admitted it, whatever was saved and rendered
\* meanwhile, or the backup failed to read the settings.
THEOREM ExcludedLeftAlone == Spec => []ExclusionsHonoured
<1>1. StoreInv => ExclusionsHonoured
      BY ChosenAdmitted DEF ExclusionsHonoured
<1>2. QED
      BY <1>1, StoreInit, StoreStep, PTL DEF Spec

\* As long as the settings can be read, an app that has been excluded is never
\* backed up: a failing read is all that is missing to ExclusionsApplied.
THEOREM ExcludedNeverBackedUp ==
    ASSUME "read" \notin Faults
    PROVE  Spec => []ExclusionsApplied
<1>1. Init => SureInv
      BY ReadingsTyped DEF Init, SureInv
<1>2. StoreInv /\ SureInv /\ [Next]_vars => SureInv'
      BY SureStep
<1>3. StoreInv /\ SureInv => ExclusionsApplied
  <2> SUFFICES ASSUME StoreInv, SureInv, bpc = "archive", target = None,
                      NEW a \in Chosen
               PROVE  \E n \in floor.saved .. Last :
                          a \notin LoadSettings(saves[n]).excluded_apps
      BY DEF ExclusionsApplied
  <2>1. bsettings.ok
        BY DEF StoreInv, BackupInv, SureInv
  <2>2. QED
        BY <2>1, ChosenAdmitted
<1>4. QED
      BY <1>1, <1>2, <1>3, StoreInit, StoreStep, PTL DEF Spec

-----------------------------------------------------------------------------
(* The rendering of the settings.                                          *)

\* While nobody has got further than to be about to save, config.yaml is the
\* rendering of the last save, unless a rendering failed or overlapped; a
\* client that met no other POST renders the last save into the file it has
\* truncated itself.
RepairInv ==
    /\ ~up => \A c \in Clients : pc[c] = "idle"
    /\ \A c \in alone :
           /\ pc[c] \in {"open", "write"} =>
                  doc[c] \in Readings /\ doc[c].save = Last
           /\ pc[c] = "write" => config = Empty
    /\ up /\ ~suspect /\ (\A c \in Clients : pc[c] \in {"idle", "save"}) =>
           config = Saved

LEMMA RepairStep == StoreInv /\ RepairInv /\ [Next]_vars => RepairInv'
<1> SUFFICES ASSUME StoreInv, RepairInv, [Next]_vars PROVE RepairInv'
    OBVIOUS
<1> USE DEF StoreInv, TypeOK, AloneInv, RepairInv, handlers, backup
<1>0. Last \in Numbers
      BY DEF Last
<1>1. ASSUME saves' = saves PROVE Last' = Last /\ Saved' = Saved
      BY <1>1 DEF Last, Saved
\* A reading that succeeded is what is saved.
<1>a. ASSUME NEW r \in Readings, r.save = Last, r.ok PROVE r = Saved
      BY <1>a, ReadingsTyped DEF Saved
<1>2. CASE StartUp
  <2>1. config' \in Readings /\ config'.save = Last
        BY <1>0, <1>2, ReadsLast DEF StartUp
  <2>2. ~suspect' => config' = Saved
        BY <1>2, <1>a, <2>1 DEF StartUp
  <2>3. QED
        BY <1>1, <1>2, <2>2 DEF StartUp
<1>3. CASE StartUpFails \/ Crash
      BY <1>1, <1>3 DEF StartUpFails, Crash
<1>4. ASSUME NEW c \in Clients, NEW form \in Forms, Post(c, form)
      PROVE  RepairInv'
      BY <1>1, <1>4 DEF Post, Busy
<1>5. ASSUME NEW c \in Clients, Save(c) PROVE RepairInv'
      BY <1>5 DEF Save
<1>6. ASSUME NEW c \in Clients, SaveFails(c) \/ OpenConfig(c) PROVE RepairInv'
      BY <1>1, <1>6 DEF SaveFails, OpenConfig
<1>b. ASSUME NEW c \in Clients, LoadToRender(c) PROVE RepairInv'
      BY <1>0, <1>1, <1>b, ReadsLast DEF LoadToRender
<1>7. ASSUME NEW c \in Clients, WriteConfig(c) PROVE RepairInv'
  <2>1. CASE c \in alone
    <3>1. doc[c] \in Readings /\ doc[c].save = Last /\ config' = doc[c]
          BY <1>7, <2>1 DEF WriteConfig, Overwritten
    <3>2. ~suspect' => config' = Saved
          BY <1>7, <1>a, <3>1 DEF WriteConfig
    <3>3. QED
          BY <1>1, <1>7, <2>1, <3>2 DEF WriteConfig, Handled
  <2>2. CASE c \notin alone
        BY <1>1, <1>7, <2>2 DEF WriteConfig, Handled
  <2>3. QED
        BY <2>1, <2>2
<1>8. ASSUME NEW c \in Clients, WriteFails(c) PROVE RepairInv'
      BY <1>1, <1>8 DEF WriteFails, Handled
<1>9. ASSUME NEW app \in Apps \cup {None}, BackupBegins(app) PROVE RepairInv'
      BY <1>1, <1>9 DEF BackupBegins
<1>10. CASE BackupStep \/ UNCHANGED vars
       BY <1>1, <1>10 DEF BackupStep, ReadConfig, ReadExcluded, Discover,
                          BackupEnds, BackupOver, vars
<1>11. QED
       BY <1>2, <1>3, <1>4, <1>5, <1>6, <1>b, <1>7, <1>8, <1>9, <1>10
       DEF Next, HandlerStep

\* With no POST in progress, config.yaml is the rendering of the settings last
\* saved, unless a rendering failed, two overlapped or the settings could not be
\* read since the last undisturbed one: that one, or a restart, repairs whatever went before.
THEOREM RenderingRepaired == Spec => []ConfigRepaired
<1>1. Init => RepairInv
      BY DEF Init, RepairInv
<1>2. StoreInv /\ RepairInv => ConfigRepaired
  <2> SUFFICES ASSUME StoreInv, RepairInv, AtRest, ~suspect
               PROVE  Renders(config, Saved)
      BY DEF ConfigRepaired
  <2>1. config = Saved
        BY DEF AtRest, Busy, RepairInv
  <2>2. Saved # Empty /\ Saved # Mixed
    <3>1. Saved \in Readings
          BY DEF StoreInv, TypeOK, Saved, Readings, Last
    <3>2. QED
          BY <3>1, ReadingsTyped
  <2>3. QED
        BY <2>1, <2>2 DEF Renders, Document
<1>3. QED
      BY <1>1, <1>2, StoreInit, StoreStep, RepairStep, PTL DEF Spec

-----------------------------------------------------------------------------
(* From the form to the configuration a backup loads.                      *)

SettingsKeys ==
    {"runtipi_path", "backup_hour", "enabled_schedules", "rclone_remote",
     "rclone_api_url", "local_retention", "remote_retention", "excluded_apps"}

\* What load_config has to find in the rendering of settings.
SoundSettings(s) ==
    /\ s.runtipi_path \in Absolute
    /\ s.rclone_remote \in Targets /\ s.rclone_api_url \in Endpoints
    /\ DOMAIN s.local_retention = Schedules
    /\ DOMAIN s.remote_retention = Schedules

\* The texts that RenderConfig itself puts into the entry of the remote.
WrittenTexts == {"rclone-api", "RCLONE_API_PASSWORD"}

\* The installation form gave sound values, so did the form of the version
\* that wrote the settings file that is there at first; a POST carries every
\* field of the form.  None is not a text, and the empty text is neither a
\* target nor an endpoint, nor the user name that the environment gives.
SoundInstallation ==
    /\ Schedules # {}
    /\ Unset \notin WrittenTexts
    /\ {"", Unset} \cap (Targets \cup Endpoints \cup {ApiUsername}) = {}
    /\ DOMAIN Environment = SettingsKeys /\ SoundSettings(Environment)
    /\ \A first \in FirstSettings : SoundSettings(LoadSettings(first))
    /\ \A form \in Forms : DOMAIN form = SettingsKeys

\* What is saved from an accepted form is sound once it is loaded.
LEMMA AcceptedSound ==
    ASSUME SoundInstallation, NEW form \in Forms, Accepts(form), NEW installed
    PROVE  SoundSettings(LoadSettings(SettingsFromForm(form, installed)))
<1> DEFINE saved == SettingsFromForm(form, installed)
           merged == Updated(Environment, saved)
<1>1. DOMAIN form = SettingsKeys /\ DOMAIN Environment = SettingsKeys
      BY DEF SoundInstallation
<1>2. /\ DOMAIN saved = SettingsKeys
      /\ saved.runtipi_path \in Absolute
      /\ saved.rclone_remote \in Targets /\ saved.rclone_api_url \in Endpoints
      BY <1>1 DEF SettingsFromForm, SettingsKeys, Accepts, NamesRemote
<1> HIDE DEF saved
<1>3. /\ DOMAIN merged = SettingsKeys
      /\ merged.runtipi_path = saved.runtipi_path
      /\ merged.rclone_remote = saved.rclone_remote
      /\ merged.rclone_api_url = saved.rclone_api_url
      BY <1>1, <1>2 DEF Updated, Field, SettingsKeys
<1> HIDE DEF merged
<1>4. ASSUME NEW right
      PROVE  /\ DOMAIN Updated(Environment.local_retention, right) = Schedules
             /\ DOMAIN Updated(Environment.remote_retention, right) = Schedules
      BY DEF Updated, SoundInstallation, SoundSettings
<1>5. LoadSettings(saved) =
          [merged EXCEPT
              !.local_retention  = Updated(Environment.local_retention,
                                           Field(saved, "local_retention", NoDocument)),
              !.remote_retention = Updated(Environment.remote_retention,
                                           Field(saved, "remote_retention", NoDocument))]
      BY DEF LoadSettings, merged
<1> DEFINE loc == Updated(Environment.local_retention,
                          Field(saved, "local_retention", NoDocument))
           rem == Updated(Environment.remote_retention,
                          Field(saved, "remote_retention", NoDocument))
<1>6. DOMAIN loc = Schedules /\ DOMAIN rem = Schedules
      BY <1>4
<1>7. LoadSettings(saved) =
          [merged EXCEPT !.local_retention = loc, !.remote_retention = rem]
      BY <1>5
<1> HIDE DEF loc, rem
<1>8. /\ LoadSettings(saved).local_retention = loc
      /\ LoadSettings(saved).remote_retention = rem
      /\ LoadSettings(saved).runtipi_path = merged.runtipi_path
      /\ LoadSettings(saved).rclone_remote = merged.rclone_remote
      /\ LoadSettings(saved).rclone_api_url = merged.rclone_api_url
      BY <1>3, <1>7 DEF SettingsKeys
<1>9. SoundSettings(LoadSettings(saved))
      BY <1>2, <1>3, <1>6, <1>8 DEF SoundSettings
<1>10. QED
       BY <1>9 DEF saved

\* The rendering of sound settings is a configuration that loads and says
\* what the settings say.
LEMMA SoundLoads ==
    ASSUME SoundInstallation, NEW s, SoundSettings(s)
    PROVE  LET cfg == Loaded(RenderConfig(s))
           IN  /\ Loads(RenderConfig(s))
               /\ cfg.path = s.runtipi_path
               /\ cfg.schedules = s.local_retention
               /\ Len(cfg.remotes) = 1
               /\ cfg.remotes[1].schedules = s.remote_retention
               /\ \A a \in Pipeline : a \in DOMAIN cfg.app_settings
                                      /\ cfg.app_settings[a].keep_running
<1> DEFINE document == RenderConfig(s)
           cfg == Loaded(document)
           remote == [name             |-> "rclone-api",
                      rclone_remote    |-> s.rclone_remote,
                      api_url          |-> s.rclone_api_url,
                      api_username     |-> ApiUsername,
                      api_password_env |-> "RCLONE_API_PASSWORD",
                      schedules        |-> s.remote_retention]
           kept == [a \in Pipeline |-> [keep_running |-> TRUE]]
           runtipi == [path |-> s.runtipi_path, apps |-> <<>>]
           bk == [stop_apps |-> TRUE, schedules |-> s.local_retention,
                  remotes |-> <<remote>>, app_settings |-> kept]
<1>1. document = [version |-> 4, runtipi |-> runtipi, backup |-> bk]
      BY DEF RenderConfig, ConfigVersion
<1>2. /\ Field(document, "version", 1) = 4
      /\ Field(document, "runtipi", NoDocument) = runtipi
      /\ Field(document, "backup", NoDocument) = bk
  <2> HIDE DEF runtipi, bk, document
  <2>1. QED
        BY <1>1 DEF Field
<1>3. /\ Field(runtipi, "path", DefaultPath) = s.runtipi_path
      BY DEF Field
<1>4. /\ Field(bk, "schedules", NoDocument) = s.local_retention
      /\ Field(bk, "remotes", <<>>) = <<remote>>
      /\ Field(bk, "app_settings", NoDocument) = kept
  <2> HIDE DEF remote, kept
  <2>1. QED
        BY DEF Field
<1>5. DOMAIN s.local_retention = Schedules /\ DOMAIN s.local_retention # {}
      BY DEF SoundSettings, SoundInstallation
<1>6. /\ cfg.path = s.runtipi_path
      /\ cfg.schedules = s.local_retention
      /\ cfg.remotes = <<remote>>
      /\ cfg.app_settings = kept
  <2> HIDE DEF remote, kept, runtipi, bk, document
  <2>1. QED
        BY <1>2, <1>3, <1>4, <1>5 DEF Loaded, AppSettingsOf
<1>7. RemoteIsSound(remote)
  <2>1. Field(remote, "schedules", NoDocument) = s.remote_retention
        BY DEF Field
  <2>2. s.rclone_remote \notin {"", Unset} /\ s.rclone_api_url \notin {"", Unset}
        BY DEF SoundSettings, SoundInstallation
  <2>3. {"rclone-api", ApiUsername, "RCLONE_API_PASSWORD"} \cap {"", Unset} = {}
        BY DEF SoundInstallation, WrittenTexts
  <2>4. /\ Field(remote, "name", "") = "rclone-api"
        /\ Field(remote, "rclone_remote", "") = s.rclone_remote
        /\ Field(remote, "api_url", "") = s.rclone_api_url
        /\ Field(remote, "api_username", "") = ApiUsername
        /\ Field(remote, "api_password_env", "") = "RCLONE_API_PASSWORD"
        BY DEF Field
  <2> HIDE DEF remote
  <2>5. /\ Given(remote, "name") /\ Given(remote, "rclone_remote")
        /\ {f \in ApiFields : Given(remote, f)} = ApiFields
        BY <2>2, <2>3, <2>4 DEF Given, ApiFields
  <2>6. DOMAIN s.remote_retention = Schedules /\ Schedules # {}
        BY DEF SoundSettings, SoundInstallation
  <2>7. QED
        BY <2>1, <2>5, <2>6 DEF RemoteIsSound, SchedulesKnown
<1>8. DOMAIN cfg.remotes = {1} /\ Len(cfg.remotes) = 1 /\ cfg.remotes[1] = remote
  <2> HIDE DEF remote, cfg
  <2>1. QED
        BY <1>6
<1>9. remote.schedules = s.remote_retention
      OBVIOUS
<1>10. \A a \in Pipeline : a \in DOMAIN kept /\ kept[a].keep_running
       OBVIOUS
<1>11. Loads(document)
  <2>1. s.runtipi_path \in Absolute
        BY DEF SoundSettings
  <2> HIDE DEF remote, kept, document, cfg
  <2>2. NamesDiffer(cfg.remotes)
        BY <1>8 DEF NamesDiffer
  <2>3. SchedulesKnown(cfg.schedules)
        BY <1>5, <1>6 DEF SchedulesKnown
  <2>4. QED
        BY <1>2, <1>6, <1>7, <1>8, <2>1, <2>2, <2>3 DEF Loads, cfg, ConfigVersion
<1>12. QED
  <2> HIDE DEF remote, kept, document, cfg
  <2>1. QED
        BY <1>6, <1>8, <1>9, <1>10, <1>11 DEF document, cfg

\* What has been saved, or is about to be.
SoundInv ==
    /\ \A n \in 1 .. Last : SoundSettings(LoadSettings(saves[n]))
    /\ \E S : new \in [Clients -> S]
    /\ \A c \in Clients : pc[c] = "save" => SoundSettings(LoadSettings(new[c]))

LEMMA SoundInit == SoundInstallation /\ Init => SoundInv
<1> SUFFICES ASSUME SoundInstallation, Init PROVE SoundInv
    OBVIOUS
<1>1. PICK first \in FirstSettings : saves = <<first>>
      BY DEF Init
<1>2. Last = 1 /\ saves[1] = first
      BY <1>1 DEF Last
<1>3. SoundSettings(LoadSettings(saves[1]))
      BY <1>2 DEF SoundInstallation
<1>4. new \in [Clients -> {None}] /\ \A c \in Clients : pc[c] # "save"
      BY DEF Init
<1>5. \A n \in 1 .. Last : n = 1
      BY <1>2
<1>6. QED
      BY <1>3, <1>4, <1>5 DEF SoundInv

LEMMA SoundStep ==
    ASSUME SoundInstallation, StoreInv, SoundInv, [Next]_vars
    PROVE  SoundInv'
<1> USE DEF handlers, backup
<1>1. pc \in [Clients -> {"idle", "save", "load", "open", "write"}]
      BY DEF StoreInv, TypeOK
<1>2. PICK S : new \in [Clients -> S]
      BY DEF SoundInv
<1>3. ASSUME saves' = saves
      PROVE  \A n \in 1 .. Last' : SoundSettings(LoadSettings(saves'[n]))
      BY <1>3 DEF SoundInv, Last
\* Steps that make no client ready to save.
<1>4. ASSUME saves' = saves,
             \/ new' = new
             \/ \E c \in Clients : new' = [new EXCEPT ![c] = None] /\ pc'[c] = "idle"
             \/ new' = [c \in Clients |-> None] /\ \A c \in Clients : pc'[c] = "idle",
             \A c \in Clients : pc'[c] = "save" => pc[c] = "save"
      PROVE  SoundInv'
  <2>1. new' \in [Clients -> S \cup {None}]
        BY <1>2, <1>4
  <2>2. ASSUME NEW c \in Clients, pc'[c] = "save" PROVE new'[c] = new[c]
        BY <1>2, <1>4, <2>2
  <2>3. \A c \in Clients : pc'[c] = "save" => SoundSettings(LoadSettings(new'[c]))
        BY <1>4, <2>2 DEF SoundInv
  <2>4. QED
        BY <1>3, <1>4, <2>1, <2>3 DEF SoundInv
<1>5. ASSUME NEW c \in Clients, NEW form \in Forms, Post(c, form)
      PROVE  SoundInv'
  <2> DEFINE saved == SettingsFromForm(form, Installed(config))
  <2>1. /\ Accepts(form) /\ saves' = saves
        /\ new' = [new EXCEPT ![c] = saved] /\ pc' = [pc EXCEPT ![c] = "save"]
        BY <1>5 DEF Post
  <2>2. SoundSettings(LoadSettings(saved))
        BY <2>1, AcceptedSound
  <2> HIDE DEF saved
  <2>3. new' \in [Clients -> S \cup {saved}]
        BY <1>2, <2>1
  <2>4. \A d \in Clients : pc'[d] = "save" => SoundSettings(LoadSettings(new'[d]))
        BY <1>1, <1>2, <2>1, <2>2 DEF SoundInv
  <2>5. QED
        BY <1>3, <2>1, <2>3, <2>4 DEF SoundInv
<1>6. ASSUME NEW c \in Clients, Save(c) PROVE SoundInv'
  <2>1. /\ pc[c] = "save" /\ saves' = Append(saves, new[c])
        /\ new' = [new EXCEPT ![c] = None] /\ pc' = [pc EXCEPT ![c] = "load"]
        BY <1>6 DEF Save
  <2>2. PICK T : saves \in Seq(T)
        BY DEF StoreInv, SavesInv
  <2>3. saves \in Seq(T \cup {new[c]})
        BY <2>2
  <2>4. /\ Last' = Last + 1 /\ Last \in Nat
        /\ \A n \in 1 .. Last : saves'[n] = saves[n]
        /\ saves'[Last + 1] = new[c]
        BY <2>1, <2>3 DEF Last
  <2>5. SoundSettings(LoadSettings(new[c]))
        BY <2>1 DEF SoundInv
  <2>6. ASSUME NEW n \in 1 .. Last' PROVE SoundSettings(LoadSettings(saves'[n]))
    <3>1. CASE n \in 1 .. Last
          BY <2>4, <3>1 DEF SoundInv
    <3>2. CASE n = Last + 1
          BY <2>4, <2>5, <3>2
    <3>3. QED
          BY <2>4, <3>1, <3>2
  <2>7. new' \in [Clients -> S \cup {None}]
        BY <1>2, <2>1
  <2>8. \A d \in Clients : pc'[d] = "save" => SoundSettings(LoadSettings(new'[d]))
        BY <1>1, <1>2, <2>1 DEF SoundInv
  <2>9. QED
        BY <2>6, <2>7, <2>8 DEF SoundInv
<1>7. ASSUME NEW c \in Clients,
             SaveFails(c) \/ LoadToRender(c) \/ OpenConfig(c) \/ WriteConfig(c) \/ WriteFails(c)
      PROVE  SoundInv'
      BY <1>1, <1>4, <1>7 DEF SaveFails, LoadToRender, OpenConfig, WriteConfig,
                              WriteFails, Handled
<1>8. CASE StartUp \/ StartUpFails \/ Crash
      BY <1>4, <1>8 DEF StartUp, StartUpFails, Crash
<1>9. ASSUME NEW app \in Apps \cup {None}, BackupBegins(app) PROVE SoundInv'
      BY <1>4, <1>9 DEF BackupBegins
<1>10. CASE BackupStep \/ UNCHANGED vars
       BY <1>4, <1>10 DEF BackupStep, ReadConfig, ReadExcluded, Discover,
                          BackupEnds, BackupOver, vars
<1>11. QED
       BY <1>5, <1>6, <1>7, <1>8, <1>9, <1>10 DEF Next, HandlerStep

\* Whatever is posted, and whatever the settings file held at first, the
\* configuration rendered from the settings last saved, or from the defaults where
\* they cannot be read, loads, with their
\* retentions and path, one remote, and both halves of the pipeline kept
\* running: the guards of the form are enough for load_config.
THEOREM SavedFormsLoad ==
    ASSUME SoundInstallation
    PROVE  Spec => []AcceptedFormsLoad
<1>1. Init => SoundInv
      BY SoundInit
<1>2. StoreInv /\ SoundInv /\ [Next]_vars => SoundInv'
      BY SoundStep
<1>3. StoreInv /\ SoundInv => AcceptedFormsLoad
  <2> SUFFICES ASSUME StoreInv, SoundInv PROVE AcceptedFormsLoad
      OBVIOUS
  <2>1. Last \in 1 .. Last /\ Last \in Numbers
        BY LastTyped DEF StoreInv, TypeOK, Last
  <2>2. ASSUME NEW reading \in SettingsRead PROVE SoundSettings(Settings(reading))
        BY <2>1, ReadsLast DEF SoundInv, SoundInstallation, Settings
  <2>3. QED
        BY <2>2, SoundLoads DEF AcceptedFormsLoad
<1>4. QED
      BY <1>1, <1>2, <1>3, StoreInit, StoreStep, PTL DEF Spec
=============================================================================
