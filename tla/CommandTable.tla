---------------------------- MODULE CommandTable -----------------------------
(***************************************************************************)
(* Two tables that are kept by hand in two files: what the command line of  *)
(* agent-browser puts into a command (commands.rs), and what the handler of *)
(* that command asks for (native/actions.rs).  A value is abstracted to the *)
(* name of the field that carries it.                                       *)
(***************************************************************************)

\* A command line: the action it becomes, the fields it always sets and the
\* fields it sets when the user gives the option.
C(line, action, gives, may) ==
    [line |-> line, action |-> action, gives |-> gives, may |-> may]

\* Lines with one argument that is a selector.
OnElement(lines) == {C(l[1], l[2], {"selector"}, {}) : l \in lines}

-----------------------------------------------------------------------------
(* parse_command_inner.                                                    *)

Navigation == {
    C("open", "launch", {"headless"}, {}),
    C("open url", "navigate", {"url"}, {"waitUntil", "headers"}),
    C("back", "back", {}, {}), C("forward", "forward", {}, {}), C("reload", "reload", {}, {})}

Pointing ==
    OnElement({<<"dblclick", "dblclick">>, <<"hover", "hover">>, <<"focus", "focus">>,
               <<"check", "check">>, <<"uncheck", "uncheck">>})
    \cup {C("click", "click", {"selector"}, {"newTab"}),
          C("fill", "fill", {"selector", "value"}, {}),
          C("type", "type", {"selector", "text"}, {})}

Choosing == {
    C("select", "select", {"selector", "values"}, {}),
    C("drag", "drag", {"source", "target"}, {}),
    C("upload", "upload", {"selector", "files"}, {}),
    C("download", "download", {"selector", "path"}, {}),
    C("press", "press", {"key"}, {}), C("keydown", "keydown", {"key"}, {}),
    C("keyup", "keyup", {"key"}, {}), C("keyboard", "keyboard", {"subaction", "text"}, {})}

Scrolling ==
    OnElement({<<"scrollintoview", "scrollintoview">>})
    \cup {C("scroll", "scroll", {"direction", "amount"}, {"selector"})}

\* Every wait takes the timeout of the command line or of the environment.
Waiting == {
    C("wait --url", "waitforurl", {"url"}, {"timeout"}),
    C("wait --load", "waitforloadstate", {"state"}, {"timeout"}),
    C("wait --fn", "waitforfunction", {"expression"}, {"timeout"}),
    C("wait --text", "wait", {"text"}, {"timeout"}),
    C("wait --download", "waitfordownload", {}, {"path", "timeout"}),
    C("wait ms", "wait", {"timeout"}, {}),
    C("wait selector", "wait", {"selector"}, {"timeout"})}

Viewing == {
    C("screenshot", "screenshot", {"fullPage"},
      {"annotate", "path", "selector", "format", "quality", "screenshotDir"}),
    C("pdf", "pdf", {"path"}, {}),
    C("snapshot", "snapshot", {}, {"interactive", "compact", "cursor", "urls", "maxDepth", "selector"})}

Running == {
    C("eval", "evaluate", {"script"}, {}),
    C("close", "close", {}, {}), C("inspect", "inspect", {}, {})}

AuthSave == {
    C("auth save", "auth_save", {"name", "url", "username", "password"},
      {"usernameSelector", "passwordSelector", "submitSelector"}),
    C("auth save --password-stdin", "auth_save", {"name", "url", "username", "passwordStdin"},
      {"usernameSelector", "passwordSelector", "submitSelector"})}

Auth == {
    C("auth login", "auth_login", {"name"}, {}), C("auth list", "auth_list", {}, {}),
    C("auth delete", "auth_delete", {"name"}, {}), C("auth show", "auth_show", {"name"}, {}),
    C("confirm", "confirm", {"confirmationId"}, {}), C("deny", "deny", {"confirmationId"}, {})}

Connecting == {C("connect port", "launch", {"cdpPort"}, {}), C("connect url", "launch", {"cdpUrl"}, {})}

Streaming == {
    C("stream enable", "stream_enable", {}, {"port"}),
    C("stream disable", "stream_disable", {}, {}), C("stream status", "stream_status", {}, {})}

Cookies == {
    C("cookies set", "cookies_set", {"cookies"}, {}),
    C("cookies clear", "cookies_clear", {}, {}), C("cookies", "cookies_get", {}, {})}

Tabs == {
    C("tab new", "tab_new", {}, {"label", "url"}), C("tab list", "tab_list", {}, {}),
    C("tab close", "tab_close", {}, {"tabId"}), C("tab", "tab_switch", {"tabId"}, {}),
    C("window new", "window_new", {}, {}),
    C("frame", "frame", {"selector"}, {}), C("frame main", "mainframe", {}, {}),
    C("dialog status", "dialog", {"response"}, {}),
    C("dialog", "dialog", {"response"}, {"promptText"})}

Recorders == {
    C("trace start", "trace_start", {}, {}), C("trace stop", "trace_stop", {}, {"path"}),
    C("profiler start", "profiler_start", {}, {"categories"}),
    C("profiler stop", "profiler_stop", {}, {"path"}),
    C("record start", "recording_start", {"path"}, {"url"}),
    C("record stop", "recording_stop", {}, {}),
    C("record restart", "recording_restart", {"path"}, {"url"})}

Debugging == {
    C("console", "console", {"clear"}, {}), C("errors", "errors", {"clear"}, {}),
    C("highlight", "highlight", {"selector"}, {}),
    C("clipboard", "clipboard", {"operation"}, {}),
    C("clipboard write", "clipboard", {"operation", "text"}, {})}

States == {
    C("state save", "state_save", {"path"}, {}), C("state load", "state_load", {"path"}, {}),
    C("state list", "state_list", {}, {}), C("state show", "state_show", {"path"}, {}),
    C("state clear", "state_clear", {}, {"all", "sessionName"}),
    C("state clean", "state_clean", {"days"}, {}),
    C("state rename", "state_rename", {"oldName", "newName"}, {})}

Devices == {
    C("tap", "tap", {"selector"}, {}), C("swipe", "swipe", {"direction"}, {"distance"}),
    C("device list", "device_list", {}, {}),
    C("batch", "batch", {"bail"}, {"commands"}),
    C("vitals", "vitals", {}, {"json", "url"}),
    C("pushstate", "pushstate", {"url"}, {}),
    C("removeinitscript", "removeinitscript", {"identifier"}, {})}

ReactLines == {
    C("react tree", "react_tree", {}, {"json"}),
    C("react inspect", "react_inspect", {"fiberId"}, {"json"}),
    C("react renders start", "react_renders_start", {}, {"json"}),
    C("react renders stop", "react_renders_stop", {}, {"json"}),
    C("react suspense", "react_suspense", {}, {"json", "onlyDynamic"})}

DiffSnapshot == {C("diff snapshot", "diff_snapshot", {}, {"baseline", "selector", "compact", "maxDepth"})}
DiffScreenshot ==
    {C("diff screenshot", "diff_screenshot", {"baseline"}, {"output", "threshold", "selector", "fullPage"})}
DiffUrl == {
    C("diff url", "diff_url", {"url1", "url2"},
      {"screenshot", "fullPage", "waitUntil", "selector", "compact", "maxDepth"})}

Getting ==
    OnElement({<<"get text", "gettext">>, <<"get html", "innerhtml">>, <<"get value", "inputvalue">>,
               <<"get count", "count">>, <<"get box", "boundingbox">>, <<"get styles", "styles">>})
    \cup {C("get attr", "getattribute", {"selector", "attribute"}, {}),
          C("get url", "url", {}, {}), C("get cdp-url", "cdp_url", {}, {}), C("get title", "title", {}, {})}

Asking == OnElement({<<"is visible", "isvisible">>, <<"is enabled", "isenabled">>,
                     <<"is checked", "ischecked">>})

Finding == {
    C("find role", "getbyrole", {"role", "subaction", "exact"}, {"name", "value"}),
    C("find text", "getbytext", {"text", "subaction", "exact"}, {}),
    C("find label", "getbylabel", {"label", "subaction", "exact"}, {"value"}),
    C("find placeholder", "getbyplaceholder", {"placeholder", "subaction", "exact"}, {"value"}),
    C("find alt", "getbyalttext", {"text", "subaction", "exact"}, {}),
    C("find title", "getbytitle", {"text", "subaction", "exact"}, {}),
    C("find testid", "getbytestid", {"testId", "subaction"}, {"value"}),
    C("find first", "nth", {"selector", "index", "subaction"}, {"value"}),
    C("find nth", "nth", {"selector", "index", "subaction"}, {"value"})}

Mousing == {
    C("mouse move", "mousemove", {"x", "y"}, {}), C("mouse down", "mousedown", {"button"}, {}),
    C("mouse up", "mouseup", {"button"}, {}), C("mouse wheel", "wheel", {"deltaX", "deltaY"}, {})}

Setting == {
    C("set viewport", "viewport", {"width", "height"}, {"deviceScaleFactor"}),
    C("set device", "device", {"device"}, {}),
    C("set geo", "geolocation", {"latitude", "longitude"}, {}),
    C("set offline", "offline", {"offline"}, {}), C("set headers", "headers", {"headers"}, {}),
    C("set credentials", "credentials", {"username", "password"}, {}),
    C("set media", "emulatemedia", {"colorScheme", "reducedMotion"}, {})}

Networking == {
    C("network route", "route", {"url", "abort"}, {"body", "resourceType"}),
    C("network unroute", "unroute", {}, {"url"}),
    C("network requests", "requests", {"clear"}, {"filter", "type", "method", "status"}),
    C("network request", "request_detail", {"requestId"}, {}),
    C("network har start", "har_start", {}, {}), C("network har stop", "har_stop", {}, {"path"})}

Storing == {
    C("storage set", "storage_set", {"type", "key", "value"}, {}),
    C("storage clear", "storage_clear", {"type"}, {}),
    C("storage get", "storage_get", {"type"}, {"key"})}

Commands ==
    UNION {Navigation, Pointing, Choosing, Scrolling, Waiting, Viewing, Running, AuthSave, Auth,
           Connecting, Streaming, Cookies, Tabs, Recorders, Debugging, States, Devices, ReactLines,
           DiffSnapshot, DiffScreenshot, DiffUrl, Getting, Asking, Finding, Mousing, Setting,
           Networking, Storing}

-----------------------------------------------------------------------------
(* The handlers: what each cannot do without, and what else it looks at.   *)

H(action, needs, reads) == [action |-> action, needs |-> needs, reads |-> reads]
\* Handlers that need a selector and nothing else.
ElementHandlers(actions) == {H(a, {"selector"}, {}) : a \in actions}
\* Handlers that need nothing.
Free(actions) == {H(a, {}, {}) : a \in actions}

ReadHandlers == Free({"url", "cdp_url", "inspect", "title", "content"})
    \cup {H("evaluate", {"script"}, {})}
ViewHandlers == {
    H("snapshot", {}, {"compact", "interactive", "maxDepth", "selector", "urls"}),
    H("screenshot", {}, {"annotate", "format", "fullPage", "path", "quality", "screenshotDir", "selector", "type"})}
ClickHandlers == {H("click", {"selector"}, {"button", "clickCount", "newTab"}),
    H("dblclick", {"selector"}, {}), H("fill", {"selector", "value"}, {})}
TypeHandlers == {H("type", {"selector", "text"}, {"clear", "delay"}), H("press", {"key"}, {}),
    H("hover", {"selector"}, {}), H("scroll", {}, {"amount", "direction", "selector", "x", "y"})}
ChoiceHandlers == ElementHandlers({"check", "uncheck", "gettext"})
    \cup {H("select", {"selector"}, {"value", "values"}),
          H("wait", {}, {"function", "loadState", "selector", "state", "text", "url", "timeout"})}
StateHandlers == ElementHandlers({"isvisible", "isenabled", "ischecked"})
    \cup {H("getattribute", {"selector", "attribute"}, {})}
HistoryHandlers == Free({"back", "forward", "reload"})
StorageHandlers == {
    H("cookies_get", {}, {"urls"}), H("cookies_set", {}, {"cookies"}), H("cookies_clear", {}, {}),
    H("storage_get", {}, {"key", "type"}), H("storage_set", {"key", "value"}, {"type"}),
    H("storage_clear", {}, {"type"}), H("setcontent", {"html"}, {}),
    H("headers", {"headers"}, {}), H("offline", {}, {"offline"})}
LogHandlers == {H("console", {}, {"clear"}), H("errors", {}, {}),
    H("state_save", {}, {"path"}), H("state_load", {"path"}, {})}
\* dispatch_state_command, which main.rs calls before it looks for a daemon.
StateFileHandlers == {H("state_list", {}, {}), H("state_show", {"path"}, {}),
    H("state_clear", {}, {"path"}), H("state_clean", {}, {"days"}),
    H("state_rename", {"path", "name"}, {})}
DiffHandlers == {H("diff_snapshot", {}, {"baseline", "compact", "maxDepth", "selector"}),
    H("diff_url", {"url1", "url2"}, {"waitUntil"})}
CredentialHandlers == {H("credentials_set", {"name", "username", "password"}, {"url"}),
    H("credentials_get", {"name"}, {}), H("credentials_delete", {"name"}, {}),
    H("credentials_list", {}, {}), H("auth_list", {}, {}), H("auth_delete", {"name"}, {}),
    H("auth_show", {"name"}, {}),
    H("mouse", {}, {"button", "clickCount", "eventType", "x", "y"}),
    H("keyboard", {}, {"text", "code", "eventType", "key", "subaction"})}
TabHandlers == {H("tab_list", {}, {}), H("tab_new", {}, {"label", "url"}),
    H("tab_switch", {"tabId"}, {}), H("tab_close", {}, {"tabId"}),
    H("viewport", {}, {"deviceScaleFactor", "height", "mobile", "width"}),
    H("useragent", {"userAgent"}, {}), H("user_agent", {"userAgent"}, {}),
    H("set_media", {}, {"colorScheme", "features", "media", "reducedMotion"}),
    H("emulatemedia", {}, {"colorScheme", "features", "media", "reducedMotion"})}
RecorderHandlers == {H("trace_start", {}, {}), H("trace_stop", {}, {"path"}),
    H("profiler_start", {}, {"categories"}), H("profiler_stop", {}, {"path"})}
PaperHandlers == ElementHandlers({"focus", "clear", "selectall", "scrollintoview"})
    \cup {H("pdf", {}, {"landscape", "path", "preferCSSPageSize", "printBackground"})}
BoxHandlers == ElementHandlers({"highlight", "boundingbox", "innertext", "innerhtml", "inputvalue"})
    \cup {H("dispatch", {"selector", "event"}, {"eventInit", "eventType"}),
          H("tap", {"selector"}, {"x", "y"})}
EmulationHandlers == {H("setvalue", {"selector", "value"}, {}), H("count", {"selector"}, {}),
    H("styles", {"selector"}, {"properties"}), H("bringtofront", {}, {}),
    H("timezone", {"timezoneId"}, {"timezone"}), H("locale", {"locale"}, {}),
    H("geolocation", {"latitude", "longitude"}, {"accuracy"}),
    H("permissions", {}, {"permissions"}), H("dialog", {}, {"accept", "promptText", "response"})}
ScriptHandlers == {H("upload", {"selector"}, {"file", "files"}),
    H("addscript", {}, {"content", "script", "source", "url"}),
    H("addinitscript", {"script"}, {"content", "source"}),
    H("removeinitscript", {"identifier"}, {}), H("react_tree", {}, {"json"}),
    H("react_inspect", {"fiberId"}, {})}
ReactHandlers == {H("react_renders_start", {}, {}), H("react_renders_stop", {}, {"json"}),
    H("react_suspense", {}, {"json", "onlyDynamic"})}
VitalsHandlers == {H("vitals", {}, {"json", "url"})}
StyleHandlers == {H("pushstate", {"url"}, {}), H("addstyle", {}, {"content", "css", "url"}),
    H("clipboard", {}, {"text", "operation", "subAction", "value"}),
    H("wheel", {}, {"deltaX", "deltaY", "x", "y"})}
DeviceHandlers == {H("device", {"device"}, {"name"})}
StreamHandlers == {H("stream_enable", {}, {"port"}), H("stream_disable", {}, {}), H("stream_status", {}, {})}
ScreencastHandlers == {H("screencast_start", {}, {"format", "maxHeight", "maxWidth", "quality"}),
    H("screencast_stop", {}, {})}
WaitHandlers == {H("waitforurl", {"url"}, {"timeout"}), H("waitforloadstate", {}, {"state", "timeout"}),
    H("waitforfunction", {"expression"}, {"timeout"})}
FrameHandlers == {H("frame", {}, {"name", "selector", "url"}), H("mainframe", {}, {})}
LocatorHandlers ==
    {H("getbyrole", {"role"}, {"exact", "name", "subaction", "value"})}
    \cup {H(l[1], {l[2]}, {"exact", "subaction", "value"}) :
            l \in {<<"getbytext", "text">>, <<"getbylabel", "label">>, <<"getbyplaceholder", "placeholder">>,
                   <<"getbyalttext", "text">>, <<"getbytitle", "text">>, <<"getbytestid", "testId">>}}
NthHandlers == {H("nth", {"selector", "index"}, {"subaction", "value"}), H("find", {"selector"}, {}),
    H("evalhandle", {"script"}, {})}
DragHandlers == {H("drag", {"source", "target"}, {}), H("expose", {"name"}, {}), H("pause", {}, {}),
    H("multiselect", {"selector"}, {"values"})}
WindowHandlers == {H("window_new", {}, {"viewport"}),
    H("diff_screenshot", {"baseline"}, {"fullPage", "output", "selector", "threshold"})}
SwipeHandlers == {H("device_list", {}, {}),
    H("swipe", {}, {"direction", "distance", "duration", "endX", "endY", "startX", "startY"})}
InputHandlers == {
    H("input_mouse", {}, {"button", "buttons", "clickCount", "deltaX", "deltaY", "modifiers", "type", "x", "y"}),
    H("input_keyboard", {}, {"type"}), H("input_touch", {}, {"touchPoints", "type"})}
KeyHandlers == {H("keydown", {"key"}, {}), H("keyup", {"key"}, {}), H("inserttext", {"text"}, {}),
    H("mousemove", {}, {"x", "y"}), H("mousedown", {}, {"button"}), H("mouseup", {}, {"button"})}
\* Handlers with a module of their own, or with several steps.
LongHandlers == {
    H("launch", {}, {"headless", "cdpUrl", "cdpPort"}), H("close", {}, {}),
    H("navigate", {"url"}, {"headers", "waitUntil"}),
    H("download", {"selector", "path"}, {}), H("waitfordownload", {}, {"path", "timeout"}),
    H("responsebody", {"url"}, {"timeout"}),
    H("recording_start", {"path"}, {"url"}), H("recording_stop", {}, {}), H("recording_restart", {"path"}, {}),
    H("video_start", {"path"}, {}), H("video_stop", {}, {}),
    H("har_start", {}, {}), H("har_stop", {}, {"path"}),
    H("route", {"url"}, {"abort", "resourceType", "resourceTypes", "response"}), H("unroute", {}, {"url"}),
    H("requests", {}, {"clear", "filter", "method", "status", "type"}), H("request_detail", {"requestId"}, {}),
    H("credentials", {"username", "password"}, {}),
    H("auth_save", {"name", "url", "username", "password"},
      {"usernameSelector", "passwordSelector", "submitSelector"}),
    H("auth_login", {"name"}, {"usernameSelector", "passwordSelector", "submitSelector"}),
    H("confirm", {}, {}), H("deny", {}, {})}

Handlers ==
    UNION {ReadHandlers, ViewHandlers, ClickHandlers, TypeHandlers, ChoiceHandlers, StateHandlers,
           HistoryHandlers, StorageHandlers, LogHandlers, StateFileHandlers, DiffHandlers,
           CredentialHandlers, TabHandlers, RecorderHandlers, PaperHandlers, BoxHandlers,
           EmulationHandlers, ScriptHandlers, ReactHandlers, VitalsHandlers, StyleHandlers,
           DeviceHandlers, StreamHandlers, ScreencastHandlers, WaitHandlers, FrameHandlers,
           LocatorHandlers, NthHandlers, DragHandlers, WindowHandlers, SwipeHandlers,
           InputHandlers, KeyHandlers, LongHandlers}

\* The actions that have an arm, and the handler it runs.
HandledActions == {h.action : h \in Handlers}
HandlerOf == [action \in HandledActions |-> CHOOSE h \in Handlers : h.action = action]

\* execute_command starts no browser for these.
SkipLaunch ==
    {"launch", "close", "har_stop", "credentials_set", "credentials_get", "credentials_delete",
     "credentials_list", "auth_save", "auth_show", "auth_delete", "auth_list", "state_list",
     "state_show", "state_clear", "state_clean", "state_rename", "device_list", "stream_enable",
     "stream_disable", "stream_status"}

\* The handlers that do without a browser.
NoBrowserNeeded ==
    {"launch", "close", "console", "errors", "har_stop", "state_list", "state_show", "state_clear",
     "state_clean", "state_rename", "credentials_set", "credentials_get", "credentials_delete",
     "credentials_list", "auth_list", "auth_delete", "auth_show", "auth_save", "recording_stop",
     "recording_restart", "stream_enable", "stream_disable", "stream_status", "mainframe", "pause",
     "video_stop", "requests", "request_detail", "confirm", "deny", "device_list"}

=============================================================================
