-------------------------- MODULE MCOpenCoreInstall --------------------------
(***************************************************************************)
(* An instance of OpenCoreInstall: own configurations without Kryptonite,  *)
(* with a switched-off Lilu, with a switched-off Kryptonite after, without *)
(* and before a Lilu, with an old installation; boot-args that are         *)
(* missing, empty, unrelated, of an old installation, or that shadow one;  *)
(* no device properties, or unrelated ones.                                *)
(***************************************************************************)
EXTENDS OpenCoreInstall

MCConfigs == {<<>>,
              <<Entry("other", TRUE)>>,
              <<Entry("Lilu", FALSE), Entry("other", TRUE)>>,
              <<Entry("Lilu", TRUE), Entry("Kryptonite", FALSE)>>,
              <<Entry("Kryptonite", FALSE)>>,
              <<Entry("Kryptonite", FALSE), Entry("Lilu", TRUE)>>,
              Release}
MCArgLists == {NoArgs, ArgList({}),
               ArgList({BootArg(<<"other">>, "")}),
               ArgList({BootArg(<<"krygpu">>, "other")}),
               ArgList({BootArg(<<"-kry">>, "")})}
MCDevices == {{}, {"other"}}

==============================================================================
